---- MODULE Spec2Model ----
(***************************************************************************)
(* CalendarProxy: the formatter pipeline of src/src/formatters/base.ts     *)
(* (recurrence collapse, field rewrite, UID fixup, custom events,          *)
(* predicates) and its callers in calendar.ts and index.ts.                *)
(*                                                                         *)
(* Property values are the values ical.js hands out from                   *)
(* getFirstPropertyValue: a JS string for TEXT properties, a number for    *)
(* INTEGER properties, an ical.Time object for DATE-TIME properties, an    *)
(* ical.Recur object for RRULE, and null for a missing property.  A value  *)
(* is a record [t, s, n]: t is the JS type, s the characters of a string   *)
(* (a sequence of character tokens), n the number of an INTEGER or the     *)
(* day of a Time.  A Recur holds its count in n, FREQ and BYDAY in s.      *)
(***************************************************************************)
EXTENDS Integers, Sequences, FiniteSets, TLC

VARIABLES
    vevents,      \* collapseSelectedRecurrences: the array passed in
    settings,     \* collapseSelectedRecurrences: RecurrenceCollapseConfig
    cpc,          \* collapseSelectedRecurrences: position in the function
    sorted,       \* collapseSelectedRecurrences: const sorted
    inProgress,   \* collapseSelectedRecurrences: const inProgress
    output        \* collapseSelectedRecurrences: const output

VARIABLES
    component,           \* rewriteComponent: the event being rewritten
    patterns,            \* rewriteComponent: settings.patterns still to run
    done,                \* rewriteComponent: the patterns already run
    originalValuesLazy,  \* rewriteComponent: const originalValuesLazy
    sourceValues,        \* rewriteComponent: the sourceValue each pattern was given
    original             \* the event as it was when rewriteComponent was called

VARIABLES
    events,       \* checkCondition: root.getAllSubcomponents('vevent')
    condition,    \* checkCondition: the EventPredicate
    index,        \* checkCondition: the loop index i (from 0)
    toMatch,      \* checkCondition: let toMatch
    returned      \* checkCondition: the value returned, "none" before

VARIABLES
    source,         \* reloadCalendar: response.data, parsed
    lastEntry,      \* reloadCalendar: the entry the cache held on entry
    root,           \* Calendar.rootComponent of the entry being built
    config,         \* the Formatter's sub-configurations
    pc,             \* position in reloadCalendar / Formatter.format
    trace,          \* the stages format has run: stage, document before and after
    derived,        \* ids of the events whose uid fixupUids has set, in order
    thrown,         \* message of the Error thrown out of format, "" if none
    calendarCache,  \* calendarCache entry of the URL
    result,         \* what reloadCalendar returned
    response        \* what siteCalendarHandle sent

VARIABLES
    testedEvent,      \* testEventPredicate: vevent
    testedPredicate,  \* testEventPredicate: predicate
    testResult        \* testEventPredicate: the value returned, "none" before

VARIABLES
    rootComponent,         \* Calendar.rootComponent
    formattedOutputCache,  \* Calendar.formattedOutputCache
    calls,                 \* the calls made on the Calendar so far
    lastString             \* what the last call of toString returned

VARIABLES
    clock,                    \* Date.now(), in milliseconds
    lastReload,               \* Calendar.lastReload of the cached entry
    refreshInterval,          \* Calendar.refreshInterval of the cached entry
    respectInternalInterval,  \* SETTINGS.RESPECT_ICAL_REFRESH_INTERVAL
    ticks,                    \* how often the clock has advanced
    fetches,                  \* the clock at each axios.get of reloadCalendar
    answer                    \* the last shouldReload: delta and value returned

VARIABLES
    cacheEntry,         \* calendarCache.get(calendarUrl), NoCalendar when undefined
    sourceHashMapping,  \* the keys of sourceHashMapping
    dateNow,            \* Date.now()
    formatterName,      \* siteConfig.formatter
    useClones,          \* whether calendarCache.get hands out a copy of the entry
    lastCall            \* the last call of reloadCalendar: arguments and outcome

collapseVars == <<vevents, settings, cpc, sorted, inProgress, output>>
rewriteVars == <<component, patterns, done, originalValuesLazy, sourceValues, original>>
conditionVars == <<events, condition, index, toMatch, returned>>
formatVars == <<source, lastEntry, root, config, pc, trace, derived, thrown,
               calendarCache, result, response>>
predicateVars == <<testedEvent, testedPredicate, testResult>>
calendarVars == <<rootComponent, formattedOutputCache, calls, lastString>>
throttleVars == <<clock, lastReload, refreshInterval, respectInternalInterval, ticks,
                 fetches, answer>>
reloadVars == <<cacheEntry, sourceHashMapping, dateNow, formatterName, useClones, lastCall>>
outsideCollapse == <<rewriteVars, conditionVars, formatVars, predicateVars, calendarVars,
                    throttleVars, reloadVars>>
outsideRewrite == <<collapseVars, conditionVars, formatVars, predicateVars, calendarVars,
                   throttleVars, reloadVars>>
outsideCondition == <<collapseVars, rewriteVars, formatVars, predicateVars, calendarVars,
                     throttleVars, reloadVars>>
outsideFormat == <<collapseVars, rewriteVars, conditionVars, predicateVars, calendarVars,
                  throttleVars, reloadVars>>
outsidePredicate == <<collapseVars, rewriteVars, conditionVars, formatVars, calendarVars,
                     throttleVars, reloadVars>>
outsideCalendar == <<collapseVars, rewriteVars, conditionVars, formatVars, predicateVars,
                    throttleVars, reloadVars>>
outsideThrottle == <<collapseVars, rewriteVars, conditionVars, formatVars, predicateVars,
                    calendarVars, reloadVars>>
outsideReload == <<collapseVars, rewriteVars, conditionVars, formatVars, predicateVars,
                  calendarVars, throttleVars>>
vars == <<collapseVars, rewriteVars, conditionVars, formatVars, predicateVars,
         calendarVars, throttleVars, reloadVars>>

\* the parts of the state a specification does not use stay as they start
CollapseIdle ==
    /\ vevents = <<>> /\ settings = <<>> /\ cpc = "idle"
    /\ sorted = <<>> /\ inProgress = <<>> /\ output = <<>>
RewriteIdle ==
    /\ component = <<>> /\ patterns = <<>> /\ done = <<>>
    /\ originalValuesLazy = <<>> /\ sourceValues = <<>> /\ original = <<>>
FormatIdle ==
    /\ source = <<>> /\ lastEntry = <<>> /\ root = <<>> /\ config = <<>>
    /\ pc = "idle" /\ trace = <<>> /\ derived = <<>> /\ thrown = ""
    /\ calendarCache = <<>> /\ result = <<>> /\ response = <<>>
PredicateIdle ==
    /\ testedEvent = <<>> /\ testedPredicate = <<>> /\ testResult = "none"
CalendarIdle ==
    /\ rootComponent = <<>> /\ formattedOutputCache = <<>> /\ calls = <<>>
    /\ lastString = <<>>
ThrottleIdle ==
    /\ clock = 0 /\ lastReload = 0 /\ refreshInterval = <<>>
    /\ respectInternalInterval = FALSE /\ ticks = 0 /\ fetches = <<>> /\ answer = <<>>
ReloadIdle ==
    /\ cacheEntry = <<>> /\ sourceHashMapping = {} /\ dateNow = 0
    /\ formatterName = "" /\ useClones = FALSE /\ lastCall = <<>>
ConditionIdle ==
    /\ events = <<>> /\ condition = <<>> /\ index = 0 /\ toMatch = 0 /\ returned = "none"

----------------------------------------------------------------------------
(* Values *)

Null == [t |-> "null", s |-> <<>>, n |-> 0]
TextVal(str) == [t |-> "text", s |-> str, n |-> 0]
IntVal(num) == [t |-> "int", s |-> <<>>, n |-> num]
TimeVal(day) == [t |-> "time", s |-> <<>>, n |-> day]
RecurVal(freq, count, byday) == [t |-> "recur", s |-> <<freq, byday>>, n |-> count]

Digit == <<"0", "1", "2", "3", "4", "5", "6", "7", "8", "9">>

RECURSIVE IntSeq(_)
\* Number.prototype.toString(): the decimal digits of a non-negative number
IntSeq(n) == IF n < 10 THEN <<Digit[n + 1]>>
             ELSE IntSeq(n \div 10) \o <<Digit[(n % 10) + 1]>>

\* value.toString(): a string stays itself, every other value is rendered
toString(x) ==
    CASE x.t = "text"  -> x
      [] x.t = "int"   -> TextVal(IntSeq(x.n))
      [] x.t = "time"  -> TextVal(<<"T">> \o IntSeq(x.n))
      [] x.t = "recur" -> TextVal(<<"FREQ=", x.s[1], ";COUNT=">> \o IntSeq(x.n))

\* value?.toString() ?? null
toStringOrNull(x) == IF x.t = "null" THEN Null ELSE toString(x)

\* JS truthiness of a property value
Truthy(x) ==
    CASE x.t = "null" -> FALSE
      [] x.t = "text" -> x.s # <<>>
      [] x.t = "int"  -> x.n # 0
      [] OTHER        -> TRUE

\* a === b where a is a string or null: equal only to the same primitive
StrictEq(a, b) == a = b

\* Component.getFirstPropertyValue(key): null when the property is missing
getFirstPropertyValue(vevent, key) == vevent[key]

\* Component.updatePropertyWithValue / addPropertyWithValue
updatePropertyWithValue(vevent, key, value) == [vevent EXCEPT ![key] = value]

----------------------------------------------------------------------------
(* collapseSelectedRecurrences *)

Period(frequency) == IF frequency = "daily" THEN 1 ELSE 7

\* ical.Time.adjust(days, 0, 0, 0) adds the days to the receiver in place
\* and returns the receiver: the result is also the new state of `now`.
getFutureOccurrenceTime(now, frequency) == TimeVal(now.n + Period(frequency))

\* ical.Time.dayOfWeek(): SUNDAY = 1 .. SATURDAY = 7 (day 0 is a Thursday)
dayOfWeek(time) == ((time.n + 4) % 7) + 1

ByDay == <<"SU", "MO", "TU", "WE", "TH", "FR", "SA">>

\* a.start.compare(b.start) <= 0
StartLeq(a, b) == a.dtstart.n <= b.dtstart.n

RECURSIVE InsertSorted(_, _)
\* stable insertion: x goes after every element that does not start later
InsertSorted(s, x) ==
    IF s = <<>> THEN <<x>>
    ELSE IF StartLeq(s[1], x) THEN <<s[1]>> \o InsertSorted(Tail(s), x)
    ELSE <<x>> \o s

RECURSIVE SortByStart(_)
SortByStart(s) ==
    IF s = <<>> THEN <<>>
    ELSE InsertSorted(SortByStart(SubSeq(s, 1, Len(s) - 1)), s[Len(s)])

RECURSIVE SelectSeqOf(_, _)
SelectSeqOf(s, keep) ==
    IF s = <<>> THEN <<>>
    ELSE (IF s[1].id \in keep THEN <<s[1]>> ELSE <<>>) \o SelectSeqOf(Tail(s), keep)

\* lines 450-465: keep the events that have a start, sort them by start
SortedWithStart(vs) ==
    SortByStart(SelectSeqOf(vs,
        {vs[i].id : i \in {j \in 1..Len(vs) : Truthy(getFirstPropertyValue(vs[j], "dtstart"))}}))

RECURSIVE KeysMatch(_, _, _)
\* lines 481-487: every required key of the snapshot is === to the event's value
KeysMatch(matchRequirements, vevent, keys) ==
    IF keys = <<>> THEN TRUE
    ELSE /\ StrictEq(matchRequirements[keys[1]], getFirstPropertyValue(vevent, keys[1]))
         /\ KeysMatch(matchRequirements, vevent, Tail(keys))

\* lines 480-503: does this series take the event
SeriesTakes(recurrence, vevent, cfg) ==
    LET start == getFirstPropertyValue(vevent, "dtstart")
    IN /\ KeysMatch(recurrence.matchRequirements, vevent, cfg.requiredMatchingKeys)
       /\ Truthy(start)
       /\ recurrence.nextTime.n = start.n

\* the last series in creation order that takes the event
LastTaking(series, vevent, cfg) ==
    LET hits == {i \in 1..Len(series) : SeriesTakes(series[i], vevent, cfg)}
    IN IF hits = {} THEN 0 ELSE CHOOSE i \in hits : \A j \in hits : i >= j

\* index of the first series in creation order that takes the event, 0 if none
FirstTaking(series, vevent, cfg) ==
    LET hits == {i \in 1..Len(series) : SeriesTakes(series[i], vevent, cfg)}
    IN IF hits = {} THEN 0 ELSE CHOOSE i \in hits : \A j \in hits : i <= j

\* lines 498-499: count += 1, nextTime adjusted; nextTime is the Time object
\* held by the base event's dtstart property, so the base event moves too
ExtendSeries(recurrence, cfg) ==
    LET next == getFutureOccurrenceTime(recurrence.nextTime, cfg.frequency)
    IN [recurrence EXCEPT !.count = @ + 1,
                          !.nextTime = next,
                          !.baseEvent = updatePropertyWithValue(@, "dtstart", next)]

\* lines 507-554: a new series anchored at the event
NewSeries(vevent, cfg) ==
    LET start == getFirstPropertyValue(vevent, "dtstart")
        nextTime == getFutureOccurrenceTime(start, cfg.frequency)
    IN [baseEvent |-> updatePropertyWithValue(vevent, "dtstart", nextTime),
        matchRequirements |->
            [k \in {cfg.requiredMatchingKeys[i] : i \in 1..Len(cfg.requiredMatchingKeys)} |->
                toStringOrNull(getFirstPropertyValue(vevent, k))],
        nextTime |-> nextTime,
        freq |-> IF cfg.frequency = "daily" THEN "DAILY" ELSE "WEEKLY",
        count |-> 1,
        byday |-> IF cfg.frequency = "weekly" THEN ByDay[dayOfWeek(nextTime)] ELSE ""]

\* lines 470-557: one iteration of the walk over sorted
WalkStep(st, vevent, cfg) ==
    IF Truthy(getFirstPropertyValue(vevent, "rrule"))
    THEN [st EXCEPT !.output = Append(@, vevent)]
    ELSE LET k == FirstTaking(st.inProgress, vevent, cfg)
         IN IF k # 0
            THEN [st EXCEPT !.inProgress[k] = ExtendSeries(@, cfg)]
            ELSE IF Truthy(getFirstPropertyValue(vevent, "dtstart"))
                 THEN [st EXCEPT !.inProgress = Append(@, NewSeries(vevent, cfg))]
                 ELSE st

\* the base event of a series, with the rule whatever the count
EmittedAlwaysWithRule(recurrence) ==
    updatePropertyWithValue(recurrence.baseEvent, "rrule",
        RecurVal(recurrence.freq, recurrence.count, recurrence.byday))

\* lines 561-565: the base event of a series, with the rule when count > 1
Emitted(recurrence) ==
    IF recurrence.count > 1
    THEN updatePropertyWithValue(recurrence.baseEvent, "rrule",
             RecurVal(recurrence.freq, recurrence.count, recurrence.byday))
    ELSE recurrence.baseEvent

\* lines 560-568
EmitAll(st) == st.output \o [i \in 1..Len(st.inProgress) |-> Emitted(st.inProgress[i])]

RECURSIVE Walk(_, _, _)
Walk(st, s, cfg) ==
    IF s = <<>> THEN st ELSE Walk(WalkStep(st, s[1], cfg), Tail(s), cfg)

collapseSelectedRecurrences(vs, cfg) ==
    EmitAll(Walk([inProgress |-> <<>>, output |-> <<>>], SortedWithStart(vs), cfg))

----------------------------------------------------------------------------
(* Events.  id is the identity of the Component object, not a property. *)

Vevent(id, uid, dtstart, rrule, summary, priority) ==
    [id |-> id, uid |-> uid, dtstart |-> dtstart, rrule |-> rrule,
     summary |-> summary, location |-> Null, description |-> Null,
     priority |-> priority, status |-> Null, dtstamp |-> Null, dtend |-> Null,
     dtstartTzid |-> Null, dtendTzid |-> Null]

MaxEvents == 3

\* start times offered to the collapser, in days
Starts == {0, 1, 7, 14}

AnyRule == RecurVal("WEEKLY", 5, "MO")

\* the shapes of event the collapser is given: a singleton with only TEXT
\* properties, a singleton that also has an INTEGER property, and an event
\* that already carries a rule
EventShapes ==
    { [rrule |-> Null,    summary |-> TextVal(<<"a">>), priority |-> Null],
      [rrule |-> Null,    summary |-> TextVal(<<"b">>), priority |-> IntVal(1)],
      [rrule |-> AnyRule, summary |-> TextVal(<<"a">>), priority |-> Null] }

StartValues == {Null} \cup {TimeVal(d) : d \in Starts}

UidOf(i) == TextVal(<<"u">> \o IntSeq(i))

EventArrays(n) ==
    { [i \in 1..n |-> Vevent(i, UidOf(i), f[i][1], f[i][2].rrule,
                             f[i][2].summary, f[i][2].priority)] :
        f \in [1..n -> StartValues \X EventShapes] }

CollapseConfigs ==
    [requiredMatchingKeys : {<<"summary">>, <<"summary", "priority">>},
     frequency : {"daily", "weekly"}]

\* DurFormatter's recurrenceCollapseConfig
DurCollapseConfig ==
    [requiredMatchingKeys |-> <<"summary", "location", "description">>,
     frequency |-> "weekly"]

Lecture(id, day, summary, room) ==
    [Vevent(id, UidOf(id), TimeVal(day), Null, TextVal(<<summary>>), Null)
        EXCEPT !.location = TextVal(<<room>>), !.description = TextVal(<<"d">>)]

\* a timetable of six single events: three weekly lectures "a", a one-off
\* "c", and two weekly lectures "b", interleaved in time
Timetable ==
    << Lecture(1, 0, "a", "r1"), Lecture(2, 1, "b", "r2"), Lecture(3, 3, "c", "r1"),
       Lecture(4, 7, "a", "r1"), Lecture(5, 8, "b", "r2"), Lecture(6, 14, "a", "r1") >>

CollapseInit ==
    /\ \/ /\ vevents \in UNION {EventArrays(n) : n \in 0..MaxEvents}
          /\ settings \in CollapseConfigs
       \/ /\ vevents = Timetable
          /\ settings = DurCollapseConfig
    /\ cpc = "sort"
    /\ sorted = <<>>
    /\ inProgress = <<>>
    /\ output = <<>>
    /\ RewriteIdle
    /\ ConditionIdle
    /\ FormatIdle
    /\ PredicateIdle
    /\ CalendarIdle
    /\ ThrottleIdle
    /\ ReloadIdle

\* lines 450-468
CollapseSort ==
    /\ cpc = "sort"
    /\ sorted' = SortedWithStart(vevents)
    /\ cpc' = "walk"
    /\ UNCHANGED <<vevents, settings, inProgress, output, outsideCollapse>>

\* lines 470-557, one event of sorted
CollapseWalk ==
    /\ cpc = "walk"
    /\ sorted # <<>>
    /\ LET st == WalkStep([inProgress |-> inProgress, output |-> output],
                          Head(sorted), settings)
       IN /\ inProgress' = st.inProgress
          /\ output' = st.output
    /\ sorted' = Tail(sorted)
    /\ UNCHANGED <<vevents, settings, cpc, outsideCollapse>>

\* lines 559-568
CollapseEmit ==
    /\ cpc = "walk"
    /\ sorted = <<>>
    /\ output' = EmitAll([inProgress |-> inProgress, output |-> output])
    /\ cpc' = "done"
    /\ UNCHANGED <<vevents, settings, sorted, inProgress, outsideCollapse>>

CollapseNext == CollapseSort \/ CollapseWalk \/ CollapseEmit

SpecCollapse == CollapseInit /\ [][CollapseNext]_vars

----------------------------------------------------------------------------
(* rewriteComponent *)

\* getFirstPropertyValue(key)?.toString() ?? ''
toStringOrEmpty(x) == IF x.t = "null" THEN TextVal(<<>>) ELSE toString(x)

RECURSIVE ReplaceFirst(_, _, _)
\* String.prototype.replace with a regex that matches one character: the
\* first match is replaced, the rest of the string is kept
ReplaceFirst(str, char, replacement) ==
    IF str = <<>> THEN <<>>
    ELSE IF str[1] = char THEN replacement \o Tail(str)
    ELSE <<str[1]>> \o ReplaceFirst(Tail(str), char, replacement)

\* lines 607-613: rewriter.format(sourceValue), or
\* sourceValue.replace(rewriter.regex, rewriter.replacement)
Rewritten(rewriter, sourceValue) ==
    IF rewriter.kind = "format"
    THEN TextVal(<<"[">> \o sourceValue.s \o <<"]">>)
    ELSE TextVal(ReplaceFirst(sourceValue.s, rewriter.regex, rewriter.replacement))

\* lines 597-601: the first pattern that targets a key stores its value
Snapshot(comp, lazy, pattern) ==
    IF pattern.propertyKey \in DOMAIN lazy THEN lazy
    ELSE (pattern.propertyKey :> toStringOrEmpty(getFirstPropertyValue(comp, pattern.propertyKey)))
            @@ lazy

\* the current value is read whatever the pattern asks for
SourceValueAlwaysCurrent(comp, lazy, pattern) ==
    toStringOrEmpty(getFirstPropertyValue(comp, pattern.sourceKey))

\* lines 603-605: the stored value when the pattern asks for the original
\* and the map has the source key, the current value otherwise
SourceValue(comp, lazy, pattern) ==
    IF pattern.useOriginalSourceValue /\ pattern.sourceKey \in DOMAIN lazy
    THEN lazy[pattern.sourceKey]
    ELSE toStringOrEmpty(getFirstPropertyValue(comp, pattern.sourceKey))

\* one pattern whose result goes to the source key
ApplyPatternToSource(st, pattern) ==
    LET lazy == Snapshot(st.component, st.originalValuesLazy, pattern)
        sourceValue == SourceValue(st.component, lazy, pattern)
    IN [component |-> updatePropertyWithValue(st.component, pattern.sourceKey,
                                              Rewritten(pattern.rewriter, sourceValue)),
        originalValuesLazy |-> lazy,
        sourceValue |-> sourceValue]

\* lines 594-614: one pattern
ApplyPattern(st, pattern) ==
    LET lazy == Snapshot(st.component, st.originalValuesLazy, pattern)
        sourceValue == SourceValue(st.component, lazy, pattern)
    IN [component |-> updatePropertyWithValue(st.component, pattern.propertyKey,
                                              Rewritten(pattern.rewriter, sourceValue)),
        originalValuesLazy |-> lazy,
        sourceValue |-> sourceValue]

RECURSIVE ApplyPatterns(_, _)
ApplyPatterns(st, ps) ==
    IF ps = <<>> THEN st ELSE ApplyPatterns(ApplyPattern(st, ps[1]), Tail(ps))

\* lines 591-615: the component after all patterns
rewriteComponent(comp, cfg) ==
    ApplyPatterns([component |-> comp, originalValuesLazy |-> <<>>,
                   sourceValue |-> TextVal(<<>>)], cfg.patterns).component

MaxPatterns == 3

RewriteKeys == {"summary", "location"}

Rewriters ==
    { [kind |-> "format", regex |-> "", replacement |-> <<>>],
      [kind |-> "regex", regex |-> "a", replacement |-> <<"z">>] }

Patterns ==
    [propertyKey : RewriteKeys, sourceKey : RewriteKeys,
     useOriginalSourceValue : BOOLEAN, rewriter : Rewriters]

PatternLists == UNION {[1..n -> Patterns] : n \in 0..MaxPatterns}

RewriteInputs ==
    { [Vevent(1, UidOf(1), TimeVal(0), Null, summary, Null) EXCEPT !.location = location] :
        summary \in {Null, TextVal(<<"a">>)}, location \in {Null, TextVal(<<"a", "b">>)} }

RewriteInit ==
    /\ component \in RewriteInputs
    /\ original = component
    /\ patterns \in PatternLists
    /\ done = <<>>
    /\ originalValuesLazy = <<>>
    /\ sourceValues = <<>>
    /\ CollapseIdle
    /\ ConditionIdle
    /\ FormatIdle
    /\ PredicateIdle
    /\ CalendarIdle
    /\ ThrottleIdle
    /\ ReloadIdle

\* lines 594-614, one pattern of settings.patterns
RewritePattern ==
    /\ patterns # <<>>
    /\ LET st == ApplyPattern([component |-> component,
                               originalValuesLazy |-> originalValuesLazy],
                              Head(patterns))
       IN /\ component' = st.component
          /\ originalValuesLazy' = st.originalValuesLazy
          /\ sourceValues' = Append(sourceValues, st.sourceValue)
    /\ done' = Append(done, Head(patterns))
    /\ patterns' = Tail(patterns)
    /\ UNCHANGED <<original, outsideRewrite>>

RewriteNext == RewritePattern

SpecRewrite == RewriteInit /\ [][RewriteNext]_vars

\* C5: a pattern with useOriginalSourceValue is given the value its source
\* key had when rewriteComponent was called ('' if the property was absent)
C5_OriginalSourceValue ==
    \A i \in 1..Len(done) :
        done[i].useOriginalSourceValue =>
            sourceValues[i] = toStringOrEmpty(original[done[i].sourceKey])

\* a pattern asked for the original of a key that an earlier pattern had
\* already rewritten to something else
C5_Witness ==
    \E i \in 1..Len(done) :
        /\ done[i].useOriginalSourceValue
        /\ \E j \in 1..(i - 1) : done[j].propertyKey = done[i].sourceKey
        /\ done[i].propertyKey # done[i].sourceKey
        /\ toStringOrEmpty(component[done[i].sourceKey])
              # toStringOrEmpty(original[done[i].sourceKey])

\* the patterns before the i-th that wrote the key the i-th reads
EarlierWriters(i) == {j \in 1..(i - 1) : done[j].propertyKey = done[i].sourceKey}

\* what the event holds under the i-th pattern's source key when that
\* pattern runs: the last earlier write to the key, or the value the event
\* came with ('' if it had none)
CurrentSourceAt(i) ==
    IF EarlierWriters(i) = {}
    THEN toStringOrEmpty(original[done[i].sourceKey])
    ELSE LET j == CHOOSE w \in EarlierWriters(i) : \A v \in EarlierWriters(i) : v <= w
         IN Rewritten(done[j].rewriter, sourceValues[j])

\* a step takes the first pattern not yet applied and writes the rewritten
\* source value under its target key and under no other key
PatternStepInOrder ==
    /\ patterns # <<>>
    /\ done' = Append(done, Head(patterns))
    /\ patterns' = Tail(patterns)
    /\ component'[Head(patterns).propertyKey]
          = Rewritten(Head(patterns).rewriter, sourceValues'[Len(sourceValues')])
    /\ \A key \in DOMAIN component \ {Head(patterns).propertyKey} :
          component'[key] = component[key]
    /\ DOMAIN component' = DOMAIN component

\* C18: the patterns are applied in the order of the list; a pattern with
\* useOriginalSourceValue = false reads what the event holds under its
\* source key at that moment, which is the last earlier write to the key
\* if there was one and the empty string if the property is missing; each
\* pattern writes its target key only
C18_RewriterOrdering ==
    /\ [][PatternStepInOrder]_vars
    /\ [](\A i \in 1..Len(done) :
            ~done[i].useOriginalSourceValue =>
                /\ sourceValues[i] = CurrentSourceAt(i)
                /\ (EarlierWriters(i) = {} /\ original[done[i].sourceKey] = Null)
                      => sourceValues[i] = TextVal(<<>>))

\* a pattern that reads the current value got the write of an earlier
\* pattern, which differs from what the event came with, and the
\* properties that no pattern targets are still on the event
C18_Witness ==
    \E i \in 1..Len(done) :
        /\ ~done[i].useOriginalSourceValue
        /\ EarlierWriters(i) # {}
        /\ done[i].propertyKey # done[i].sourceKey
        /\ sourceValues[i] # toStringOrEmpty(original[done[i].sourceKey])
        /\ original.uid # Null
        /\ component.uid = original.uid
        /\ component.dtstart = original.dtstart

----------------------------------------------------------------------------
(* testEventPredicate and checkCondition *)

UpperCaseLetters ==
    <<"A", "B", "C", "D", "E", "F", "G", "H", "I", "J", "K", "L", "M",
      "N", "O", "P", "Q", "R", "S", "T", "U", "V", "W", "X", "Y", "Z">>

LowerCaseLetters ==
    <<"a", "b", "c", "d", "e", "f", "g", "h", "i", "j", "k", "l", "m",
      "n", "o", "p", "q", "r", "s", "t", "u", "v", "w", "x", "y", "z">>

\* String.prototype.toLowerCase on one character
LowerChar(c) ==
    IF \E k \in 1..Len(UpperCaseLetters) : UpperCaseLetters[k] = c
    THEN LowerCaseLetters[CHOOSE k \in 1..Len(UpperCaseLetters) : UpperCaseLetters[k] = c]
    ELSE c

\* the string is left as it is
toLowerCaseUnchanged(str) == str

toLowerCase(str) == [k \in 1..Len(str) |-> LowerChar(str[k])]

startsWith(str, sub) == Len(sub) <= Len(str) /\ SubSeq(str, 1, Len(sub)) = sub

endsWith(str, sub) ==
    Len(sub) <= Len(str) /\ SubSeq(str, Len(str) - Len(sub) + 1, Len(str)) = sub

includes(str, sub) ==
    \E k \in 0..(Len(str) - Len(sub)) : SubSeq(str, k + 1, k + Len(sub)) = sub

\* new RegExp(pattern).test(str) for a pattern of literal characters with
\* an optional leading ^ and trailing $
RegExpTest(pattern, str) ==
    LET atStart == pattern # <<>> /\ pattern[1] = "^"
        rest == IF atStart THEN Tail(pattern) ELSE pattern
        atEnd == rest # <<>> /\ rest[Len(rest)] = "$"
        body == IF atEnd THEN SubSeq(rest, 1, Len(rest) - 1) ELSE rest
    IN CASE atStart /\ atEnd -> str = body
         [] atStart          -> startsWith(str, body)
         [] atEnd            -> endsWith(str, body)
         [] OTHER            -> includes(str, body)

\* lines 617-644
testEventPredicate(vevent, predicate) ==
    LET propertyValue == getFirstPropertyValue(vevent, predicate.propertyKey)
        fold == predicate.method.ignoreCase
        valueString == IF fold THEN toLowerCase(toString(propertyValue).s)
                       ELSE toString(propertyValue).s
        expectedValue == IF fold THEN toLowerCase(predicate.method.value)
                         ELSE predicate.method.value
    IN IF ~Truthy(propertyValue) THEN FALSE
       ELSE CASE predicate.method.type = "equals"     -> valueString = expectedValue
              [] predicate.method.type = "contains"   -> includes(valueString, expectedValue)
              [] predicate.method.type = "startsWith" -> startsWith(valueString, expectedValue)
              [] predicate.method.type = "endsWith"   -> endsWith(valueString, expectedValue)
              [] predicate.method.type = "regex"      -> RegExpTest(expectedValue, valueString)
              [] OTHER -> FALSE

\* EventPredicate.match: 'any' | 'all' | number
MatchAny == [q |-> "any", n |-> 0]
MatchAll == [q |-> "all", n |-> 0]
MatchNumber(num) == [q |-> "number", n |-> num]

\* 'all' asks for one match, like 'any'
ThresholdAllAsAny(match, veventCount) ==
    IF match.q = "number" THEN match.n ELSE 1

\* line 379: 1 for 'any', the number of events for 'all', else the number
Threshold(match, veventCount) ==
    IF match.q = "any" THEN 1 ELSE IF match.q = "all" THEN veventCount ELSE match.n

\* the reachability test is off by one
LoopGuardOffByOne(k, need, veventCount) ==
    k < veventCount /\ need > 0 /\ need < veventCount - k

\* line 381: the loop condition
LoopGuard(k, need, veventCount) ==
    k < veventCount /\ need > 0 /\ need <= veventCount - k

\* lines 382-384: toMatch after the body for vevents[k] (k from 0)
LoopBody(vs, predicate, k, need) ==
    IF testEventPredicate(vs[k + 1], predicate) THEN need - 1 ELSE need

RECURSIVE CheckLoop(_, _, _, _)
CheckLoop(vs, predicate, k, need) ==
    IF LoopGuard(k, need, Len(vs))
    THEN CheckLoop(vs, predicate, k + 1, LoopBody(vs, predicate, k, need))
    ELSE need

\* lines 376-388
checkCondition(vs, predicate) ==
    CheckLoop(vs, predicate, 0, Threshold(predicate.match, Len(vs))) = 0

MaxCondEvents == 3

\* the largest number given as match: one more than any document has events
MaxMatch == 4

StatusValues == {Null, TextVal(<<"o", "k">>), TextVal(<<"O", "K">>), TextVal(<<"n", "o">>)}

WithStatus(id, status) ==
    [Vevent(id, UidOf(id), TimeVal(0), Null, TextVal(<<"a">>), Null) EXCEPT !.status = status]

StatusArrays(n) == {[k \in 1..n |-> WithStatus(k, f[k])] : f \in [1..n -> StatusValues]}

Methods ==
    { [type |-> "equals", value |-> <<"o", "k">>, ignoreCase |-> FALSE],
      [type |-> "equals", value |-> <<"o", "k">>, ignoreCase |-> TRUE],
      [type |-> "regex",  value |-> <<"^", "o">>, ignoreCase |-> FALSE] }

Conditions ==
    [match : {MatchAny, MatchAll} \cup {MatchNumber(num) : num \in 0..MaxMatch},
     propertyKey : {"status"},
     method : Methods]

ConditionInit ==
    /\ events \in UNION {StatusArrays(n) : n \in 0..MaxCondEvents}
    /\ condition \in Conditions
    /\ index = 0
    /\ toMatch = Threshold(condition.match, Len(events))
    /\ returned = "none"
    /\ CollapseIdle
    /\ RewriteIdle
    /\ FormatIdle
    /\ PredicateIdle
    /\ CalendarIdle
    /\ ThrottleIdle
    /\ ReloadIdle

\* lines 381-385, one iteration
CheckIterate ==
    /\ returned = "none"
    /\ LoopGuard(index, toMatch, Len(events))
    /\ toMatch' = LoopBody(events, condition, index, toMatch)
    /\ index' = index + 1
    /\ UNCHANGED <<events, condition, returned, outsideCondition>>

\* line 387
CheckReturn ==
    /\ returned = "none"
    /\ ~LoopGuard(index, toMatch, Len(events))
    /\ returned' = IF toMatch = 0 THEN "true" ELSE "false"
    /\ UNCHANGED <<events, condition, index, toMatch, outsideCondition>>

ConditionNext == CheckIterate \/ CheckReturn

SpecCondition == ConditionInit /\ [][ConditionNext]_vars

\* the events of the collection that satisfy the predicate
Matching == {k \in 1..Len(events) : testEventPredicate(events[k], condition)}

\* C10: checkCondition returns true exactly when the number of matching
\* events is at least the threshold, whether or not the loop stopped early
C10_ThresholdMet ==
    returned # "none" =>
        /\ returned = "true" <=>
              Cardinality(Matching) >= Threshold(condition.match, Len(events))
        /\ (returned = "true") = checkCondition(events, condition)

\* the loop stopped before the last event because the threshold could no
\* longer be reached, with some events matching
C10_Witness ==
    /\ returned = "false"
    /\ index < Len(events)
    /\ toMatch > 0
    /\ Matching # {}
    /\ condition.match.q = "number"

----------------------------------------------------------------------------
(* testEventPredicate on one event *)

\* SUMMARY of the event tested: absent, empty, or a text
TestedValues ==
    { Null, TextVal(<<>>),
      TextVal(<<"F", "i", "n", "a", "l", " ", "E", "X", "A", "M", " ", "R", "e", "v", "i", "e", "w">>),
      TextVal(<<"e", "x", "a", "m">>), TextVal(<<"E", "X", "A", "M">>), TextVal(<<"R", "e", "v", "i", "e", "w">>) }

TestedEvents ==
    { Vevent(1, UidOf(1), TimeVal(0), Null, summary, Null) : summary \in TestedValues }

\* method.value: literal texts, also read as patterns by the regex method
ExpectedValues ==
    { <<"e", "x", "a", "m">>, <<"E", "X", "A", "M">>, <<"f", "i", "n", "a", "l">>, <<"R", "e", "v", "i", "e", "w">>, <<"^", "F", "i", "n", "a", "l">>, <<"R", "E", "V", "I", "E", "W", "$">> }

\* ignoreCase is TRUE when the method object has the key and it is true
TestedPredicates ==
    [match : {MatchAny},
     propertyKey : {"summary"},
     method : [type : {"equals", "contains", "startsWith", "endsWith", "regex"},
               value : ExpectedValues,
               ignoreCase : BOOLEAN]]

PredicateInit ==
    /\ testedEvent \in TestedEvents
    /\ testedPredicate \in TestedPredicates
    /\ testResult = "none"
    /\ CollapseIdle
    /\ RewriteIdle
    /\ ConditionIdle
    /\ FormatIdle
    /\ CalendarIdle
    /\ ThrottleIdle
    /\ ReloadIdle

\* lines 617-644
TestEventPredicate ==
    /\ testResult = "none"
    /\ testResult' = IF testEventPredicate(testedEvent, testedPredicate)
                     THEN "true" ELSE "false"
    /\ UNCHANGED <<testedEvent, testedPredicate, outsidePredicate>>

PredicateNext == TestEventPredicate

SpecPredicate == PredicateInit /\ [][PredicateNext]_vars

\* C14: for equals, contains, startsWith and endsWith the comparison is
\* between the lower-cased property value and the lower-cased comparison
\* value when ignoreCase is set, and between the two as they are when it is
\* not; contains 'exam' matches 'Final EXAM Review' only with ignoreCase
C14_CaseFolding ==
    LET method == testedPredicate.method
        value == testedEvent[testedPredicate.propertyKey]
        lower(c) == CASE c = "A" -> "a" [] c = "E" -> "e" [] c = "F" -> "f"
                      [] c = "I" -> "i" [] c = "M" -> "m" [] c = "R" -> "r"
                      [] c = "V" -> "v" [] c = "W" -> "w" [] c = "X" -> "x"
                      [] OTHER -> c
        folded(str) == [k \in 1..Len(str) |-> lower(str[k])]
        left == IF method.ignoreCase THEN folded(value.s) ELSE value.s
        right == IF method.ignoreCase THEN folded(method.value) ELSE method.value
        compared == CASE method.type = "equals"     -> left = right
                      [] method.type = "contains"   -> includes(left, right)
                      [] method.type = "startsWith" -> startsWith(left, right)
                      [] method.type = "endsWith"   -> endsWith(left, right)
    IN (testResult # "none" /\ method.type # "regex" /\ Truthy(value)) =>
          /\ (testResult = "true") = compared
          /\ (/\ method.type = "contains"
              /\ method.value = <<"e", "x", "a", "m">>
              /\ value.s = <<"F", "i", "n", "a", "l", " ", "E", "X", "A", "M", " ", "R", "e", "v", "i", "e", "w">>)
             => (testResult = "true") = method.ignoreCase

\* contains 'exam' with ignoreCase has matched 'Final EXAM Review'
C14_Witness ==
    /\ testResult = "true"
    /\ testedPredicate.method.type = "contains"
    /\ testedPredicate.method.ignoreCase
    /\ testedPredicate.method.value = <<"e", "x", "a", "m">>
    /\ testedEvent.summary.s = <<"F", "i", "n", "a", "l", " ", "E", "X", "A", "M", " ", "R", "e", "v", "i", "e", "w">>

\* C20: a predicate of type regex gives the same result with and without
\* ignoreCase on its method
C20_RegexIgnoresIgnoreCase ==
    (testResult # "none" /\ testedPredicate.method.type = "regex") =>
        (testResult = "true") =
            testEventPredicate(testedEvent,
                               [testedPredicate EXCEPT !.method.ignoreCase = FALSE])

\* C11: a predicate whose match is the number n holds exactly when n events
\* of the collection satisfy the comparison
C11_ExactCount ==
    (returned # "none" /\ condition.match.q = "number") =>
        ((returned = "true") <=> (Cardinality(Matching) = condition.match.n))

----------------------------------------------------------------------------
(* Formatter.format and its stages *)

HexDigit == <<"0", "1", "2", "3", "4", "5", "6", "7", "8", "9", "a", "b", "c", "d", "e", "f">>

RECURSIVE HexSeq(_)
\* Number.prototype.toString(16)
HexSeq(num) == IF num < 16 THEN <<HexDigit[num + 1]>>
               ELSE HexSeq(num \div 16) \o <<HexDigit[(num % 16) + 1]>>

\* hashContent / crypto.createHash('md5'): the digest stands for its content
md5(content) == <<"md5(">> \o content \o <<")">>

\* ical.Time.toUnixTime(), in days
toUnixTime(time) == time.n

\* lines 246-249
replaceProdId(doc, cfg) == [doc EXCEPT !.prodid = TextVal(cfg.replacement)]

\* neither call returns early
NeverSkipsStep(step, cfg) == FALSE

\* line 259: this call returns the document as it is
SkipsStep(step, cfg) ==
    (step = "first" /\ ~cfg.fixupFirst) \/ (step = "last" /\ cfg.fixupFirst)

\* lines 268, 276-279: the literal prefix, or originalUid.replace(regex,
\* replacement) with the regex /(.).*/ and the replacement '$1_'
ActualPrefix(originalUid, cfg) ==
    IF cfg.prefix.kind = "value" THEN cfg.prefix.value
    ELSE <<Head(originalUid.s)>> \o cfg.prefix.replacement

\* the new uid also takes in the event's location
NewUidWithLocation(vevent, cfg) ==
    TextVal(ActualPrefix(getFirstPropertyValue(vevent, "uid"), cfg)
            \o md5(HexSeq(toUnixTime(getFirstPropertyValue(vevent, "dtstart"))))
            \o getFirstPropertyValue(vevent, "location").s)

\* lines 281-297
NewUid(vevent, cfg) ==
    TextVal(ActualPrefix(getFirstPropertyValue(vevent, "uid"), cfg)
            \o md5(HexSeq(toUnixTime(getFirstPropertyValue(vevent, "dtstart")))))

RECURSIVE FixupFrom(_, _, _)
\* lines 270-300 from event k on: the events, how many were given a new
\* uid, and the error thrown ("" when the loop ends)
FixupFrom(vs, k, cfg) ==
    IF k > Len(vs) THEN [vevents |-> vs, count |-> Len(vs), error |-> ""]
    ELSE IF ~Truthy(getFirstPropertyValue(vs[k], "uid"))
    THEN [vevents |-> vs, count |-> k - 1, error |-> "UID is required"]
    ELSE IF ~Truthy(getFirstPropertyValue(vs[k], "dtstart"))
    THEN [vevents |-> vs, count |-> k - 1, error |-> "DTSTART is required"]
    ELSE FixupFrom([vs EXCEPT ![k] = updatePropertyWithValue(@, "uid", NewUid(@, cfg))],
                   k + 1, cfg)

\* lines 257-303
fixupUids(doc, step, cfg) ==
    IF SkipsStep(step, cfg)
    THEN [vevents |-> doc.vevents, count |-> 0, error |-> ""]
    ELSE FixupFrom(doc.vevents, 1, cfg)

\* lines 310-320
collapseRecurrences(doc, cfg) ==
    [doc EXCEPT !.vevents = collapseSelectedRecurrences(@, cfg)]

\* lines 410-417
rewriteEventFields(doc, cfg) ==
    [doc EXCEPT !.vevents = [k \in 1..Len(@) |-> rewriteComponent(@[k], cfg)]]

\* `${...}` of a property of the template: 'undefined' when it has none
Interpolated(value) == IF value.t = "null" THEN <<"undefined">> ELSE value.s

\* the characters of 'custom_'
CustomPrefix == <<"c", "u", "s", "t", "o", "m", "_">>

\* the digest alone, without 'custom_' before it
getUidWithoutPrefix(eventView) ==
    TextVal(md5(eventView.dtstamp \o Interpolated(eventView.properties.summary)))

\* lines 371-374
getUid(eventView) ==
    TextVal(CustomPrefix
            \o md5(eventView.dtstamp \o Interpolated(eventView.properties.summary)))

RECURSIVE AllConditionsHold(_, _)
\* lines 332-338
AllConditionsHold(vs, conditions) ==
    IF conditions = <<>> THEN TRUE
    ELSE checkCondition(vs, conditions[1]) /\ AllConditionsHold(vs, Tail(conditions))

DigitValue(ch) == CHOOSE d \in 0..9 : Digit[d + 1] = ch

RECURSIVE ParseDay(_)
ParseDay(str) ==
    IF str = <<>> THEN 0
    ELSE 10 * ParseDay(SubSeq(str, 1, Len(str) - 1)) + DigitValue(str[Len(str)])

\* ical.Time.fromDateTimeString, lines 349-350
fromDateTimeString(str) == TimeVal(ParseDay(str))

RECURSIVE applyEscapeRules(_)
\* line 391: CR LF and LF each become a backslash and an n
applyEscapeRules(src) ==
    IF src = <<>> THEN <<>>
    ELSE IF Len(src) >= 2 /\ src[1] = "\r" /\ src[2] = "\n"
    THEN <<"\\n">> \o applyEscapeRules(SubSeq(src, 3, Len(src)))
    ELSE IF src[1] = "\n" THEN <<"\\n">> \o applyEscapeRules(Tail(src))
    ELSE <<src[1]>> \o applyEscapeRules(Tail(src))

\* lines 357-361: the value added for a key of properties, Null when the
\* template has no such key
AddedProperty(value, useEscapeRules) ==
    IF value.t = "null" THEN Null
    ELSE TextVal(IF useEscapeRules THEN applyEscapeRules(value.s) ELSE value.s)

\* the event built from a template, its tzid set on the start only
CustomVeventTzidOnStart(eventView, id, useEscapeRules) ==
    [Vevent(id, getUid(eventView), fromDateTimeString(eventView.dtstart), Null,
            AddedProperty(eventView.properties.summary, useEscapeRules), Null)
        EXCEPT !.dtstamp = TextVal(eventView.dtstamp),
               !.dtend = fromDateTimeString(eventView.dtend),
               !.dtstartTzid = IF Truthy(eventView.tzid) THEN eventView.tzid ELSE Null,
               !.status = AddedProperty(eventView.properties.status, useEscapeRules)]

\* lines 344-361: the event built from a template; id names the new
\* component; the key 'uid' of properties is passed over
CustomVevent(eventView, id, useEscapeRules) ==
    [Vevent(id, getUid(eventView), fromDateTimeString(eventView.dtstart), Null,
            AddedProperty(eventView.properties.summary, useEscapeRules), Null)
        EXCEPT !.dtstamp = TextVal(eventView.dtstamp),
               !.dtend = fromDateTimeString(eventView.dtend),
               !.dtstartTzid = IF Truthy(eventView.tzid) THEN eventView.tzid ELSE Null,
               !.dtendTzid = IF Truthy(eventView.tzid) THEN eventView.tzid ELSE Null,
               !.status = AddedProperty(eventView.properties.status, useEscapeRules)]

\* the component made for template k: new ical.Component('vevent')
CustomId(k) == 100 + k

RECURSIVE AddFrom(_, _, _, _)
\* lines 331-364, from template k on
AddFrom(vs, customEvents, k, useEscapeRules) ==
    IF k > Len(customEvents) THEN vs
    ELSE AddFrom(IF AllConditionsHold(vs, customEvents[k].conditions)
                 THEN Append(vs, CustomVevent(customEvents[k], CustomId(k), useEscapeRules))
                 ELSE vs,
                 customEvents, k + 1, useEscapeRules)

\* every guard is checked over the events the stage was given
addAdditionalEventsGuardsOnGiven(doc, cfg) ==
    LET held == {k \in 1..Len(cfg.customEvents) :
                    AllConditionsHold(doc.vevents, cfg.customEvents[k].conditions)}
        nth(m) == CHOOSE k \in held : Cardinality({j \in held : j < k}) = m - 1
    IN IF cfg.hasCustomEvents
       THEN [doc EXCEPT !.vevents =
                @ \o [m \in 1..Cardinality(held) |->
                        CustomVevent(cfg.customEvents[nth(m)], CustomId(nth(m)),
                                     cfg.escapeSpecialCharacters)]]
       ELSE doc

\* lines 328-368
addAdditionalEvents(doc, cfg) ==
    IF cfg.hasCustomEvents
    THEN [doc EXCEPT !.vevents = AddFrom(@, cfg.customEvents, 1, cfg.escapeSpecialCharacters)]
    ELSE doc

\* the calls of format in a wrong order: the events are rewritten before
\* they are collapsed
StageOrderRewriteFirst ==
    <<"replaceProdId", "fixupFirst", "rewriteEventFields", "collapseRecurrences",
      "addAdditionalEvents", "fixupLast">>

\* lines 172-189: the calls of format, in order
StageOrder ==
    <<"replaceProdId", "fixupFirst", "collapseRecurrences", "rewriteEventFields",
      "addAdditionalEvents", "fixupLast">>

\* lines 197-231: should...() of the stage
ShouldRun(stage, cfg) ==
    CASE stage = "replaceProdId"       -> cfg.replaceProdIdConfig.present
      [] stage = "fixupFirst"          -> cfg.uidFixupConfig.present
      [] stage = "collapseRecurrences" -> cfg.recurrenceCollapseConfig.present
      [] stage = "rewriteEventFields"  -> cfg.eventFieldRewriterConfig.present
      [] stage = "addAdditionalEvents" -> cfg.extensionConfig.present
      [] stage = "fixupLast"           -> cfg.uidFixupConfig.present

StageIndex(stage) == CHOOSE k \in 1..Len(StageOrder) : StageOrder[k] = stage

\* the position after a stage: the next if statement, or the return
AfterStage(stage) ==
    IF StageIndex(stage) = Len(StageOrder) THEN "formatted"
    ELSE StageOrder[StageIndex(stage) + 1]

\* the call format makes for a stage: the document it leaves and the
\* message of the Error it throws ("" if none)
StageResult(stage, doc, cfg) ==
    CASE stage = "replaceProdId" ->
           [doc |-> replaceProdId(doc, cfg.replaceProdIdConfig), error |-> ""]
      [] stage = "fixupFirst" ->
           LET r == fixupUids(doc, "first", cfg.uidFixupConfig)
           IN [doc |-> [doc EXCEPT !.vevents = r.vevents], error |-> r.error]
      [] stage = "collapseRecurrences" ->
           [doc |-> collapseRecurrences(doc, cfg.recurrenceCollapseConfig), error |-> ""]
      [] stage = "rewriteEventFields" ->
           [doc |-> rewriteEventFields(doc, cfg.eventFieldRewriterConfig), error |-> ""]
      [] stage = "addAdditionalEvents" ->
           [doc |-> addAdditionalEvents(doc, cfg.extensionConfig), error |-> ""]
      [] stage = "fixupLast" ->
           LET r == fixupUids(doc, "last", cfg.uidFixupConfig)
           IN [doc |-> [doc EXCEPT !.vevents = r.vevents], error |-> r.error]

RECURSIVE FormatFrom(_, _, _)
\* lines 172-190 from the k-th if statement on
FormatFrom(doc, cfg, k) ==
    IF k > Len(StageOrder) THEN [doc |-> doc, error |-> ""]
    ELSE IF ~ShouldRun(StageOrder[k], cfg) THEN FormatFrom(doc, cfg, k + 1)
    ELSE LET r == StageResult(StageOrder[k], doc, cfg)
         IN IF r.error # "" THEN r ELSE FormatFrom(r.doc, cfg, k + 1)

\* lines 169-191: the document as format leaves it, returned or not
format(doc, cfg) == FormatFrom(doc, cfg, 1)

----------------------------------------------------------------------------
(* reloadCalendar, Calendar.applyFormatter and siteCalendarHandle *)

EmptyDoc == [prodid |-> Null, vevents |-> <<>>]

\* calendarCache.get(calendarUrl) === undefined
NoEntry == [present |-> FALSE, doc |-> EmptyDoc]

Entry(doc) == [present |-> TRUE, doc |-> doc]

\* the store happens whether or not the formatter threw
reloadCalendarStoresAnyway(error, newEntry, cache) ==
    [cache |-> newEntry,
     result |-> IF error # "" THEN [kind |-> "error", details |-> error, entry |-> NoEntry]
                ELSE [kind |-> "calendar", details |-> "", entry |-> newEntry]]

\* lines 196-211 of index.ts: the catch returns a CalendarError, the normal
\* path stores the new entry and returns it
reloadCalendar(error, newEntry, cache) ==
    IF error # ""
    THEN [cache |-> cache,
          result |-> [kind |-> "error", details |-> error, entry |-> NoEntry]]
    ELSE [cache |-> newEntry,
          result |-> [kind |-> "calendar", details |-> "", entry |-> newEntry]]

\* lines 270-280 of index.ts: status and the calendar whose toString() is sent
siteCalendarHandle(calendar) ==
    IF calendar.kind = "error" THEN [status |-> 500, sent |-> NoEntry]
    ELSE [status |-> 200, sent |-> calendar.entry]

MaxDocEvents == 2

DocUids == {Null, TextVal(<<>>), TextVal(<<"x", "1">>), TextVal(<<"y", "1">>)}

DocStarts == {Null, TimeVal(0), TimeVal(7)}

\* an event of the fetched calendar: its location differs from every other
\* event's, its summary and status are the same
DocEvent(k, uid, dtstart) ==
    [Vevent(k, uid, dtstart, Null, TextVal(<<"a">>), Null)
        EXCEPT !.location = TextVal(<<"r">> \o IntSeq(k)),
               !.status = TextVal(<<"o", "k">>)]

Sources ==
    { [prodid |-> TextVal(<<"remote">>),
       vevents |-> [k \in 1..n |-> DocEvent(k, f[k][1], f[k][2])]] :
        n \in 0..MaxDocEvents, f \in [1..MaxDocEvents -> DocUids \X DocStarts] }

\* the entry cached by an earlier reload of another source
OldEntry == Entry([prodid |-> TextVal(<<"old">>), vevents |-> <<>>])

ReplaceProdIdConfigs ==
    { [present |-> FALSE, replacement |-> <<>>],
      [present |-> TRUE,  replacement |-> <<"proxy">>] }

Prefixes ==
    { [kind |-> "value", value |-> <<"p_">>, replacement |-> <<>>],
      [kind |-> "regex", value |-> <<>>, replacement |-> <<"_">>] }

UidFixupConfigs ==
    { [present |-> FALSE, fixupFirst |-> FALSE,
       prefix |-> [kind |-> "value", value |-> <<"p_">>, replacement |-> <<>>],
       derivation |-> "DTSTART_MD5"] }
    \cup [present : {TRUE}, fixupFirst : BOOLEAN, prefix : Prefixes,
          derivation : {"DTSTART_MD5"}]

RecurrenceCollapseConfigs ==
    [present : BOOLEAN, requiredMatchingKeys : {<<"summary">>}, frequency : {"weekly"}]

\* one pattern in the style of DurFormatter's: summary from the original summary
EventFieldRewriterConfigs ==
    [present : BOOLEAN,
     patterns : {<< [propertyKey |-> "summary", sourceKey |-> "summary",
                     useOriginalSourceValue |-> TRUE,
                     rewriter |-> [kind |-> "format", regex |-> "",
                                   replacement |-> <<>>]] >>}]

\* a template added when at least two events have STATUS ok
Template ==
    [dtstamp |-> <<"s">>, dtstart |-> <<"1", "4">>, dtend |-> <<"1", "5">>,
     tzid |-> TextVal(<<"tz">>),
     properties |-> [summary |-> TextVal(<<"h">>), status |-> Null, uid |-> Null],
     conditions |-> << [match |-> MatchNumber(2), propertyKey |-> "status",
                        method |-> [type |-> "equals", value |-> <<"o", "k">>,
                                    ignoreCase |-> FALSE]] >>]

ExtensionConfigs ==
    { [present |-> FALSE, hasCustomEvents |-> FALSE, escapeSpecialCharacters |-> FALSE,
       customEvents |-> <<>>],
      [present |-> TRUE, hasCustomEvents |-> FALSE, escapeSpecialCharacters |-> FALSE,
       customEvents |-> <<>>],
      [present |-> TRUE, hasCustomEvents |-> TRUE, escapeSpecialCharacters |-> FALSE,
       customEvents |-> <<Template>>] }

Configs ==
    [replaceProdIdConfig : ReplaceProdIdConfigs,
     uidFixupConfig : UidFixupConfigs,
     recurrenceCollapseConfig : RecurrenceCollapseConfigs,
     eventFieldRewriterConfig : EventFieldRewriterConfigs,
     extensionConfig : ExtensionConfigs]

\* reloadCalendar has fetched and parsed a source whose hash is not the last
\* entry's, and applyFormatter is about to call format
Init ==
    /\ source \in Sources
    /\ lastEntry \in {NoEntry, OldEntry}
    /\ calendarCache = lastEntry
    /\ root = source
    /\ config \in Configs
    /\ pc = StageOrder[1]
    /\ trace = <<>>
    /\ derived = <<>>
    /\ thrown = ""
    /\ result = [kind |-> "none", details |-> "", entry |-> NoEntry]
    /\ response = [status |-> 0, sent |-> NoEntry]
    /\ CollapseIdle
    /\ RewriteIdle
    /\ ConditionIdle
    /\ PredicateIdle
    /\ CalendarIdle
    /\ ThrottleIdle
    /\ ReloadIdle

\* a stage whose should...() is false
SkipStage(stage) ==
    /\ pc' = AfterStage(stage)
    /\ UNCHANGED <<root, trace, derived, thrown>>

\* root = this.stage(root)
RunStage(stage, after) ==
    /\ root' = after
    /\ trace' = Append(trace, [stage |-> stage, before |-> root, after |-> after])
    /\ pc' = AfterStage(stage)
    /\ UNCHANGED <<derived, thrown>>

\* one of the two calls of fixupUids; a throw leaves format and applyFormatter
FixupStage(stage, step) ==
    LET r == fixupUids(root, step, config.uidFixupConfig)
        after == [root EXCEPT !.vevents = r.vevents]
    IN /\ root' = after
       /\ trace' = Append(trace, [stage |-> stage, before |-> root, after |-> after])
       /\ derived' = derived \o [k \in 1..r.count |-> root.vevents[k].id]
       /\ thrown' = r.error
       /\ pc' = IF r.error = "" THEN AfterStage(stage) ELSE "thrown"

\* lines 172-174
ReplaceProdIdStage ==
    /\ pc = "replaceProdId"
    /\ IF ShouldRun("replaceProdId", config)
       THEN RunStage("replaceProdId", replaceProdId(root, config.replaceProdIdConfig))
       ELSE SkipStage("replaceProdId")
    /\ UNCHANGED <<source, lastEntry, config, calendarCache, result, response, outsideFormat>>

\* lines 175-177
FixupFirstStage ==
    /\ pc = "fixupFirst"
    /\ IF ShouldRun("fixupFirst", config)
       THEN FixupStage("fixupFirst", "first")
       ELSE SkipStage("fixupFirst")
    /\ UNCHANGED <<source, lastEntry, config, calendarCache, result, response, outsideFormat>>

\* lines 178-180
CollapseRecurrencesStage ==
    /\ pc = "collapseRecurrences"
    /\ IF ShouldRun("collapseRecurrences", config)
       THEN RunStage("collapseRecurrences",
                     collapseRecurrences(root, config.recurrenceCollapseConfig))
       ELSE SkipStage("collapseRecurrences")
    /\ UNCHANGED <<source, lastEntry, config, calendarCache, result, response, outsideFormat>>

\* lines 181-183
RewriteEventFieldsStage ==
    /\ pc = "rewriteEventFields"
    /\ IF ShouldRun("rewriteEventFields", config)
       THEN RunStage("rewriteEventFields",
                     rewriteEventFields(root, config.eventFieldRewriterConfig))
       ELSE SkipStage("rewriteEventFields")
    /\ UNCHANGED <<source, lastEntry, config, calendarCache, result, response, outsideFormat>>

\* lines 184-186
AddAdditionalEventsStage ==
    /\ pc = "addAdditionalEvents"
    /\ IF ShouldRun("addAdditionalEvents", config)
       THEN RunStage("addAdditionalEvents",
                     addAdditionalEvents(root, config.extensionConfig))
       ELSE SkipStage("addAdditionalEvents")
    /\ UNCHANGED <<source, lastEntry, config, calendarCache, result, response, outsideFormat>>

\* lines 187-189
FixupLastStage ==
    /\ pc = "fixupLast"
    /\ IF ShouldRun("fixupLast", config)
       THEN FixupStage("fixupLast", "last")
       ELSE SkipStage("fixupLast")
    /\ UNCHANGED <<source, lastEntry, config, calendarCache, result, response, outsideFormat>>

\* index.ts lines 196-211: applyFormatter returned or threw
ReloadReturn ==
    /\ pc \in {"formatted", "thrown"}
    /\ LET r == reloadCalendar(thrown, Entry(root), calendarCache)
       IN /\ calendarCache' = r.cache
          /\ result' = r.result
    /\ pc' = "returned"
    /\ UNCHANGED <<source, lastEntry, root, config, trace, derived, thrown, response,
                   outsideFormat>>

\* index.ts lines 270-280
SiteCalendarHandle ==
    /\ pc = "returned"
    /\ response' = siteCalendarHandle(result)
    /\ pc' = "responded"
    /\ UNCHANGED <<source, lastEntry, root, config, trace, derived, thrown,
                   calendarCache, result, outsideFormat>>

Next ==
    \/ ReplaceProdIdStage
    \/ FixupFirstStage
    \/ CollapseRecurrencesStage
    \/ RewriteEventFieldsStage
    \/ AddAdditionalEventsStage
    \/ FixupLastStage
    \/ ReloadReturn
    \/ SiteCalendarHandle

Spec == Init /\ [][Next]_vars

----------------------------------------------------------------------------
(* Formatter.format with only an extensionConfig: the custom events *)

MaxInjectEvents == 2

MaxTemplates == 2

InjectStatuses == {Null, TextVal(<<"confirmed">>), TextVal(<<"tentative">>)}

InjectSources ==
    { [prodid |-> TextVal(<<"remote">>),
       vevents |-> [k \in 1..n |->
                      [DocEvent(k, UidOf(k), TimeVal(0)) EXCEPT !.status = f[k]]]] :
        n \in 0..MaxInjectEvents, f \in [1..MaxInjectEvents -> InjectStatuses] }

\* {match: 'all', propertyKey: 'status', method: equals 'confirmed'}
AllConfirmed ==
    [match |-> MatchAll, propertyKey |-> "status",
     method |-> [type |-> "equals", value |-> <<"confirmed">>, ignoreCase |-> FALSE]]

\* {match: 'any', propertyKey: 'status', method: equals 'tentative'}
AnyTentative ==
    [match |-> MatchAny, propertyKey |-> "status",
     method |-> [type |-> "equals", value |-> <<"tentative">>, ignoreCase |-> FALSE]]

GuardLists == {<<>>, <<AllConfirmed>>, <<AnyTentative>>, <<AnyTentative, AllConfirmed>>}

\* what a template carries besides its guards: a tzid or none or an empty
\* one, a uid among its properties or none, a status or none, a summary
\* with or without a line break
TemplateBodies ==
    { [dtstamp |-> <<"s">>, dtstart |-> <<"1", "4">>, dtend |-> <<"1", "5">>,
       tzid |-> TextVal(<<"tz">>),
       properties |-> [summary |-> TextVal(<<"h">>), status |-> Null, uid |-> Null]],
      [dtstamp |-> <<"t">>, dtstart |-> <<"7">>, dtend |-> <<"2", "1">>,
       tzid |-> Null,
       properties |-> [summary |-> TextVal(<<"h", "\n", "k">>),
                       status |-> TextVal(<<"confirmed">>),
                       uid |-> TextVal(<<"mine">>)]],
      [dtstamp |-> <<"s">>, dtstart |-> <<"0">>, dtend |-> <<"1">>,
       tzid |-> TextVal(<<>>),
       properties |-> [summary |-> TextVal(<<"k", "\r", "\n">>),
                       status |-> TextVal(<<"tentative">>),
                       uid |-> Null]] }

Templates ==
    { [dtstamp |-> b.dtstamp, dtstart |-> b.dtstart, dtend |-> b.dtend, tzid |-> b.tzid,
       properties |-> b.properties, conditions |-> g] :
        b \in TemplateBodies, g \in GuardLists }

TemplateLists == UNION {[1..n -> Templates] : n \in 0..MaxTemplates}

InjectConfigs ==
    { [replaceProdIdConfig |-> [present |-> FALSE, replacement |-> <<>>],
       uidFixupConfig |->
           [present |-> FALSE, fixupFirst |-> FALSE,
            prefix |-> [kind |-> "value", value |-> <<"p_">>, replacement |-> <<>>],
            derivation |-> "DTSTART_MD5"],
       recurrenceCollapseConfig |->
           [present |-> FALSE, requiredMatchingKeys |-> <<"summary">>,
            frequency |-> "weekly"],
       eventFieldRewriterConfig |-> [present |-> FALSE, patterns |-> <<>>],
       extensionConfig |->
           [present |-> TRUE, hasCustomEvents |-> TRUE, escapeSpecialCharacters |-> e,
            customEvents |-> ts]] :
        e \in BOOLEAN, ts \in TemplateLists }

\* as Init, for a formatter that has only an extensionConfig
InjectInit ==
    /\ source \in InjectSources
    /\ lastEntry = NoEntry
    /\ calendarCache = lastEntry
    /\ root = source
    /\ config \in InjectConfigs
    /\ pc = StageOrder[1]
    /\ trace = <<>>
    /\ derived = <<>>
    /\ thrown = ""
    /\ result = [kind |-> "none", details |-> "", entry |-> NoEntry]
    /\ response = [status |-> 0, sent |-> NoEntry]
    /\ CollapseIdle
    /\ RewriteIdle
    /\ ConditionIdle
    /\ PredicateIdle
    /\ CalendarIdle
    /\ ThrottleIdle
    /\ ReloadIdle

SpecInject == InjectInit /\ [][Next]_vars

----------------------------------------------------------------------------
(* Calendar.applyFormatter and Calendar.toString *)

\* one content line of the serialization, none for a missing property
ContentLine(name, value) ==
    IF value.t = "null" THEN <<>>
    ELSE <<name, ":">> \o toString(value).s \o <<"\r\n">>

\* a content line whose property has a tzid parameter, or has none
ContentLineWithTzid(name, tzid, value) ==
    IF value.t = "null" THEN <<>>
    ELSE IF tzid.t = "null" THEN ContentLine(name, value)
    ELSE <<name, ";TZID=">> \o tzid.s \o <<":">> \o toString(value).s \o <<"\r\n">>

SerializeEvent(vevent) ==
    <<"BEGIN:VEVENT", "\r\n">>
    \o ContentLine("UID", vevent.uid)
    \o ContentLine("DTSTAMP", vevent.dtstamp)
    \o ContentLineWithTzid("DTSTART", vevent.dtstartTzid, vevent.dtstart)
    \o ContentLineWithTzid("DTEND", vevent.dtendTzid, vevent.dtend)
    \o ContentLine("RRULE", vevent.rrule)
    \o ContentLine("SUMMARY", vevent.summary)
    \o ContentLine("LOCATION", vevent.location)
    \o ContentLine("DESCRIPTION", vevent.description)
    \o ContentLine("PRIORITY", vevent.priority)
    \o ContentLine("STATUS", vevent.status)
    \o <<"END:VEVENT", "\r\n">>

RECURSIVE SerializeEvents(_)
SerializeEvents(vs) ==
    IF vs = <<>> THEN <<>> ELSE SerializeEvent(vs[1]) \o SerializeEvents(Tail(vs))

\* calendar.ts line 112: this.rootComponent.toString()
Serialize(doc) ==
    <<"BEGIN:VCALENDAR", "\r\n">>
    \o ContentLine("PRODID", doc.prodid)
    \o SerializeEvents(doc.vevents)
    \o <<"END:VCALENDAR", "\r\n">>

\* formattedOutputCache: string | null
NullString == [isNull |-> TRUE, text |-> <<>>]

String(text) == [isNull |-> FALSE, text |-> text]

MaxCalls == 3

\* calendars of up to two events, each with or without a uid
CalendarSources ==
    { [prodid |-> TextVal(<<"remote">>),
       vevents |-> [k \in 1..n |-> DocEvent(k, f[k], TimeVal(0))]] :
        n \in 0..MaxDocEvents,
        f \in [1..MaxDocEvents -> {Null, TextVal(<<"x", "1">>)}] }

\* a Formatter without any sub-configuration
BareConfig ==
    [replaceProdIdConfig |-> [present |-> FALSE, replacement |-> <<>>],
     uidFixupConfig |->
         [present |-> FALSE, fixupFirst |-> FALSE,
          prefix |-> [kind |-> "value", value |-> <<"p_">>, replacement |-> <<>>],
          derivation |-> "DTSTART_MD5"],
     recurrenceCollapseConfig |->
         [present |-> FALSE, requiredMatchingKeys |-> <<"summary">>,
          frequency |-> "weekly"],
     eventFieldRewriterConfig |-> [present |-> FALSE, patterns |-> <<>>],
     extensionConfig |->
         [present |-> FALSE, hasCustomEvents |-> FALSE, escapeSpecialCharacters |-> FALSE,
          customEvents |-> <<>>]]

\* a formatter that replaces the PRODID and one that fixes up the uids
CalendarFormatters ==
    { [BareConfig EXCEPT !.replaceProdIdConfig =
                             [present |-> TRUE, replacement |-> <<"proxy">>]],
      [BareConfig EXCEPT !.uidFixupConfig.present = TRUE,
                         !.uidFixupConfig.fixupFirst = TRUE] }

\* calendar.ts lines 24-34: a Calendar just constructed
CalendarInit ==
    /\ rootComponent \in CalendarSources
    /\ formattedOutputCache = NullString
    /\ calls = <<>>
    /\ lastString = NullString
    /\ CollapseIdle
    /\ RewriteIdle
    /\ ConditionIdle
    /\ FormatIdle
    /\ PredicateIdle
    /\ ThrottleIdle
    /\ ReloadIdle

\* calendar.ts lines 101-104; format changes the document it is given in
\* place, and a throw skips both assignments
CalendarApplyFormatter ==
    /\ Len(calls) < MaxCalls
    /\ \E formatter \in CalendarFormatters :
          LET r == format(rootComponent, formatter)
          IN /\ rootComponent' = r.doc
             /\ formattedOutputCache' =
                   IF r.error = "" THEN NullString ELSE formattedOutputCache
             /\ calls' = Append(calls, IF r.error = "" THEN "applyFormatter"
                                       ELSE "applyFormatter threw")
    /\ UNCHANGED <<lastString, outsideCalendar>>

\* calendar.ts lines 110-115
CalendarToString ==
    /\ Len(calls) < MaxCalls
    /\ formattedOutputCache' =
          IF formattedOutputCache.isNull THEN String(Serialize(rootComponent))
          ELSE formattedOutputCache
    /\ lastString' = formattedOutputCache'
    /\ calls' = Append(calls, "toString")
    /\ UNCHANGED <<rootComponent, outsideCalendar>>

CalendarNext == CalendarApplyFormatter \/ CalendarToString

SpecCalendar == CalendarInit /\ [][CalendarNext]_vars

\* C15: after any calls of applyFormatter, returning or throwing, and of
\* toString, formattedOutputCache is null or the serialization of the
\* current rootComponent, and toString returns that serialization
C15_CacheValid ==
    /\ formattedOutputCache.isNull
          \/ formattedOutputCache.text = Serialize(rootComponent)
    /\ (calls # <<>> /\ calls[Len(calls)] = "toString") =>
          lastString = String(Serialize(rootComponent))

----------------------------------------------------------------------------
(* Calendar.shouldReload and getCalendar with a forced reload *)

\* DOTENV_DEFAULTS.FORCE_RELOAD_TIMEOUT, in seconds
FORCE_RELOAD_TIMEOUT == 60 * 5

\* calendar.ts lines 79-81: the interval in seconds, 0 if not set
getRefreshInterval(interval) == IF interval.defined THEN interval.seconds ELSE 0

\* calendar.ts lines 90-94, with delta = Date.now() - this.lastReload
shouldReload(delta, interval, externalInterval, respect) ==
    (~respect \/ delta > getRefreshInterval(interval)) /\ delta > externalInterval

MaxTicks == 4

\* the steps of the clock, in milliseconds: a fifth of a second, and two
\* and a half minutes
TickSizes == {200, 150000}

\* REFRESH-INTERVAL of the calendar: none, or ten minutes
RefreshIntervals ==
    { [defined |-> FALSE, seconds |-> 0], [defined |-> TRUE, seconds |-> 600] }

\* the calendar has just been fetched and cached
ThrottleInit ==
    /\ clock = 0
    /\ lastReload = clock
    /\ refreshInterval \in RefreshIntervals
    /\ respectInternalInterval \in BOOLEAN
    /\ ticks = 0
    /\ fetches = <<clock>>
    /\ answer = [asked |-> FALSE, delta |-> 0, value |-> FALSE]
    /\ CollapseIdle
    /\ RewriteIdle
    /\ ConditionIdle
    /\ FormatIdle
    /\ PredicateIdle
    /\ CalendarIdle
    /\ ReloadIdle

\* time passes
Tick ==
    /\ ticks < MaxTicks
    /\ \E d \in TickSizes : clock' = clock + d
    /\ ticks' = ticks + 1
    /\ UNCHANGED <<lastReload, refreshInterval, respectInternalInterval, fetches, answer,
                   outsideThrottle>>

\* index.ts lines 221-232 with wantsReload and a cached entry; reloadCalendar
\* fetches the remote and the entry it returns has lastReload = Date.now()
\* (setReloaded at line 172, or the constructor of the new Calendar)
GetCalendarForced ==
    LET delta == clock - lastReload
        value == shouldReload(delta, refreshInterval, FORCE_RELOAD_TIMEOUT,
                              respectInternalInterval)
    IN /\ answer' = [asked |-> TRUE, delta |-> delta, value |-> value]
       /\ fetches' = IF value THEN Append(fetches, clock) ELSE fetches
       /\ lastReload' = IF value THEN clock ELSE lastReload
       /\ UNCHANGED <<clock, refreshInterval, respectInternalInterval, ticks,
                      outsideThrottle>>

ThrottleNext == Tick \/ GetCalendarForced

SpecThrottle == ThrottleInit /\ [][ThrottleNext]_vars

\* C16: shouldReload returns true only if more than externalInterval
\* seconds have passed since the last reload and, when the internal
\* interval is respected, more than the REFRESH-INTERVAL in seconds too; so
\* two fetches forced on a cached calendar are at least
\* FORCE_RELOAD_TIMEOUT seconds apart
C16_ReloadThrottled ==
    /\ (answer.asked /\ answer.value) =>
          /\ answer.delta > FORCE_RELOAD_TIMEOUT * 1000
          /\ respectInternalInterval =>
                answer.delta > getRefreshInterval(refreshInterval) * 1000
    /\ \A i \in 2..Len(fetches) :
          fetches[i] - fetches[i - 1] >= FORCE_RELOAD_TIMEOUT * 1000

----------------------------------------------------------------------------
(* reloadCalendar from the fetch on, and the expiry of the cache entry *)

\* response.data: three calendars and a text that ical.js cannot parse
Contents == {"a", "b", "c", "bad"}

\* crc32.str: a 32-bit checksum, so two sources can have the same one
crc32(data) ==
    CASE data = "a" -> 1
      [] data = "b" -> 2
      [] data = "c" -> 1
      [] data = "bad" -> 3

\* siteConfig.formatter: not set, a formatter that succeeds, one whose
\* format throws, a name getFormatter does not know
FormatterNames == {"undefined", "known", "throwing", "unknown"}

NoCalendar ==
    [present |-> FALSE, src |-> "", srcUid |-> 0, lastReload |-> 0, formatted |-> FALSE]

\* new Calendar(src, srcUid), formatted after applyFormatter
NewCalendar(src, srcUid, at, formatted) ==
    [present |-> TRUE, src |-> src, srcUid |-> srcUid, lastReload |-> at,
     formatted |-> formatted]

CalendarError == [kind |-> "error", entry |-> NoCalendar]

\* the checksum is never taken for the last entry's
SourceUnchangedNever(given, sourceHash) == FALSE

\* line 171: a last entry was given and the checksum is its source uid
SourceUnchanged(given, sourceHash) ==
    given.present /\ sourceHash = given.srcUid

\* lines 160-212: what a call does, given the response, the entry passed as
\* lastEntry, the cache and the time; constructed and applied tell whether
\* the Calendar constructor and applyFormatter were called
reloadCalendarCall(status, data, given, cache, mapping, name, clones, at) ==
    LET sourceHash == crc32(data)
        same == [cache |-> cache, mapping |-> mapping]
        no == [constructed |-> FALSE, applied |-> FALSE]
    IN IF status # 200
       THEN same @@ no @@ [result |-> CalendarError]
       ELSE IF SourceUnchanged(given, sourceHash)
       THEN LET reloaded == [given EXCEPT !.lastReload = at]
            IN [cache |-> IF clones THEN cache ELSE reloaded, mapping |-> mapping,
                result |-> [kind |-> "calendar", entry |-> reloaded]] @@ no
       ELSE IF name = "unknown"
       THEN same @@ no @@ [result |-> CalendarError]
       ELSE IF data = "bad"
       THEN same @@ [constructed |-> TRUE, applied |-> FALSE, result |-> CalendarError]
       ELSE IF name = "throwing"
       THEN same @@ [constructed |-> TRUE, applied |-> TRUE, result |-> CalendarError]
       ELSE LET newEntry == NewCalendar(data, sourceHash, at, name = "known")
            IN [cache |-> newEntry, mapping |-> mapping \cup {sourceHash},
                constructed |-> TRUE, applied |-> (name = "known"),
                result |-> [kind |-> "calendar", entry |-> newEntry]]

MaxNow == 6

NoCall ==
    [made |-> FALSE, given |-> NoCalendar, status |-> 0, data |-> "", at |-> 0,
     constructed |-> FALSE, applied |-> FALSE, result |-> CalendarError]

\* the server has started: the cache is empty
ReloadInit ==
    /\ cacheEntry = NoCalendar
    /\ sourceHashMapping = {}
    /\ dateNow = 0
    /\ formatterName \in FormatterNames
    /\ useClones \in BOOLEAN
    /\ lastCall = NoCall
    /\ CollapseIdle
    /\ RewriteIdle
    /\ ConditionIdle
    /\ FormatIdle
    /\ PredicateIdle
    /\ CalendarIdle
    /\ ThrottleIdle

\* getCalendar lines 221-229 calling reloadCalendar: without a last entry
\* when the cache has none, with the cached entry on a forced reload
ReloadCalendarCall ==
    /\ dateNow < MaxNow
    /\ \E status \in {200, 404}, data \in Contents, elapsed \in {1, 2} :
          LET at == dateNow + elapsed
              r == reloadCalendarCall(status, data, cacheEntry, cacheEntry,
                                      sourceHashMapping, formatterName, useClones, at)
          IN /\ dateNow' = at
             /\ cacheEntry' = r.cache
             /\ sourceHashMapping' = r.mapping
             /\ lastCall' = [made |-> TRUE, given |-> cacheEntry, status |-> status,
                             data |-> data, at |-> at, constructed |-> r.constructed,
                             applied |-> r.applied, result |-> r.result]
    /\ UNCHANGED <<formatterName, useClones, outsideReload>>

\* lines 147-150: the entry has outlived its TTL
CacheExpired ==
    /\ cacheEntry.present
    /\ cacheEntry' = NoCalendar
    /\ sourceHashMapping' = sourceHashMapping \ {cacheEntry.srcUid}
    /\ UNCHANGED <<dateNow, formatterName, useClones, lastCall, outsideReload>>

ReloadNext == ReloadCalendarCall \/ CacheExpired

SpecReload == ReloadInit /\ [][ReloadNext]_vars

\* a call of reloadCalendar with a cached entry and a fetched source
CalledWithEntry ==
    /\ lastCall' # lastCall
    /\ cacheEntry.present
    /\ lastCall'.status = 200

\* the entry in the cache but for its lastReload
SameButReloaded(a, b) == [a EXCEPT !.lastReload = 0] = [b EXCEPT !.lastReload = 0]

\* C21: called with a cached entry whose source uid is the checksum of the
\* fetched source, reloadCalendar returns that entry with lastReload set to
\* the current time, constructs no Calendar, applies no formatter, and
\* leaves the cache entry and sourceHashMapping as they are; a Calendar is
\* constructed, formatted and stored for the URL only when the checksum
\* differs
C21_UnchangedSourceReload ==
    [][CalledWithEntry =>
         IF crc32(lastCall'.data) = cacheEntry.srcUid
         THEN /\ lastCall'.result.kind = "calendar"
              /\ lastCall'.result.entry = [cacheEntry EXCEPT !.lastReload = dateNow']
              /\ ~lastCall'.constructed
              /\ ~lastCall'.applied
              /\ SameButReloaded(cacheEntry', cacheEntry)
              /\ sourceHashMapping' = sourceHashMapping
         ELSE \/ /\ cacheEntry' = cacheEntry
                 /\ sourceHashMapping' = sourceHashMapping
                 /\ lastCall'.result.kind = "error"
              \/ /\ lastCall'.constructed
                 /\ lastCall'.applied = (formatterName # "undefined")
                 /\ cacheEntry'.src = lastCall'.data
                 /\ cacheEntry'.srcUid = crc32(lastCall'.data)
                 /\ cacheEntry'.lastReload = dateNow'
                 /\ lastCall'.result = [kind |-> "calendar", entry |-> cacheEntry']
                 /\ sourceHashMapping' = sourceHashMapping \cup {crc32(lastCall'.data)}]_vars

\* the same source was fetched again for a cached entry, which came back
\* with a later lastReload
C21_Witness ==
    /\ lastCall.made
    /\ lastCall.given.present
    /\ lastCall.status = 200
    /\ lastCall.data = lastCall.given.src
    /\ lastCall.result.kind = "calendar"
    /\ lastCall.result.entry.lastReload > lastCall.given.lastReload
    /\ sourceHashMapping = {lastCall.given.srcUid}

----------------------------------------------------------------------------
(* Properties of collapseSelectedRecurrences *)

RequiredKeys == {settings.requiredMatchingKeys[i] : i \in 1..Len(settings.requiredMatchingKeys)}

\* the input events without a rule and with a start
Singletons ==
    {i \in 1..Len(vevents) : ~Truthy(vevents[i].rrule) /\ Truthy(vevents[i].dtstart)}

\* the singletons whose required-match keys have the values of event i
Group(i) == {j \in Singletons : \A k \in RequiredKeys : vevents[j][k] = vevents[i][k]}

GroupStarts(g) == {vevents[j].dtstart.n : j \in g}

\* the starts of the group are distinct and one period apart
OnePeriodApart(g) ==
    /\ Cardinality(GroupStarts(g)) = Cardinality(g)
    /\ \E t0 \in GroupStarts(g) :
          GroupStarts(g) = {t0 + m * Period(settings.frequency) : m \in 0..(Cardinality(g) - 1)}

\* the positions of the output that hold an event of the group
OutputOf(g) == {k \in 1..Len(output) : output[k].id \in {vevents[j].id : j \in g}}

HasRuleWithCount(vevent, count) == vevent.rrule.t = "recur" /\ vevent.rrule.n = count

\* C1: n >= 2 singletons with identical required-match values and starts one
\* period apart come out as exactly one event, carrying a rule with count n
C1_GroupCollapsesToOneSeries ==
    cpc = "done" =>
        \A i \in Singletons :
            (Cardinality(Group(i)) >= 2 /\ OnePeriodApart(Group(i))) =>
                \E k \in 1..Len(output) :
                    /\ OutputOf(Group(i)) = {k}
                    /\ HasRuleWithCount(output[k], Cardinality(Group(i)))

\* the positions of the output that hold the event object with this id
OutputAt(id) == {k \in 1..Len(output) : output[k].id = id}

\* the event as it was passed in
InputEvent(id) == vevents[CHOOSE i \in 1..Len(vevents) : vevents[i].id = id]

\* C2: every input event that carries a rule is in the output exactly once,
\* unchanged, and is the base event of no series
C2_RuleEventsPassThrough ==
    cpc = "done" =>
        \A i \in 1..Len(vevents) :
            Truthy(vevents[i].rrule) =>
                /\ \E k \in 1..Len(output) :
                      OutputAt(vevents[i].id) = {k} /\ output[k] = vevents[i]
                /\ \A r \in 1..Len(inProgress) : inProgress[r].baseEvent.id # vevents[i].id

\* C3: a singleton with a start that no other event extends (its series ends
\* with count 1) is emitted once, without a rule and with every property,
\* the start included, as it was passed in
C3_LoneEventUnchanged ==
    cpc = "done" =>
        \A r \in 1..Len(inProgress) :
            inProgress[r].count = 1 =>
                \E k \in 1..Len(output) :
                    /\ OutputAt(inProgress[r].baseEvent.id) = {k}
                    /\ output[k].rrule = Null
                    /\ output[k] = InputEvent(inProgress[r].baseEvent.id)

\* C4: the timetable collapses to three events: lecture "a" with count 3,
\* lecture "b" with count 2, and the one-off "c" unmodified and without a rule
C4_TimetableCollapses ==
    (cpc = "done" /\ vevents = Timetable /\ settings = DurCollapseConfig) =>
        /\ Len(output) = 3
        /\ \E k \in 1..3 : output[k].id = 1 /\ HasRuleWithCount(output[k], 3)
        /\ \E k \in 1..3 : output[k].id = 2 /\ HasRuleWithCount(output[k], 2)
        /\ \E k \in 1..3 : output[k] = Timetable[3]

\* the positions of the output that hold an anchor: an event that was
\* passed in without a rule
Anchors == {k \in 1..Len(output) : ~Truthy(InputEvent(output[k].id).rrule)}

\* what an anchor stands for: the count of its rule, or one occurrence
Occurrences(vevent) == IF vevent.rrule.t = "recur" THEN vevent.rrule.n ELSE 1

RECURSIVE SumOccurrences(_)
SumOccurrences(positions) ==
    IF positions = {} THEN 0
    ELSE LET k == CHOOSE p \in positions : TRUE
         IN Occurrences(output[k]) + SumOccurrences(positions \ {k})

\* C22: the counts of the anchors that got a rule and one for each anchor
\* without a rule add up to the number of input singletons with a start;
\* no anchor is emitted twice, and every count attached is at least 2
C22_OccurrencesConserved ==
    cpc = "done" =>
        /\ SumOccurrences(Anchors) = Cardinality(Singletons)
        /\ \A k, m \in Anchors : output[k].id = output[m].id => k = m
        /\ \A k \in Anchors : output[k].id \in {vevents[i].id : i \in Singletons}
        /\ \A k \in Anchors : output[k].rrule.t = "recur" => output[k].rrule.n >= 2

\* two singletons with a start and an event without one went in; one
\* anchor with a rule of count 2 came out
C22_Witness ==
    /\ cpc = "done"
    /\ Cardinality(Singletons) = 2
    /\ Len(vevents) = 3
    /\ \E i \in 1..Len(vevents) : ~Truthy(vevents[i].dtstart) /\ ~Truthy(vevents[i].rrule)
    /\ Cardinality(Anchors) = 1
    /\ \E k \in Anchors : HasRuleWithCount(output[k], 2)

\* C23: the start of an anchor in the output is its start in the input;
\* while a series is open, its expected next time is the anchor's input
\* start plus one period for each event taken in, and the start held by the
\* anchor is still the input start
C23_AnchorStartPreserved ==
    /\ cpc = "done" =>
          \A k \in Anchors : output[k].dtstart = InputEvent(output[k].id).dtstart
    /\ \A r \in 1..Len(inProgress) :
          /\ inProgress[r].baseEvent.dtstart = InputEvent(inProgress[r].baseEvent.id).dtstart
          /\ inProgress[r].nextTime.n =
                InputEvent(inProgress[r].baseEvent.id).dtstart.n
                   + inProgress[r].count * Period(settings.frequency)

----------------------------------------------------------------------------
(* Properties of Formatter.format and reloadCalendar *)

\* the entries of trace made by the two calls of fixupUids
FixupCalls == {i \in 1..Len(trace) : trace[i].stage \in {"fixupFirst", "fixupLast"}}

\* the call that the configuration makes the effective one
Effective(i) == (trace[i].stage = "fixupFirst") = config.uidFixupConfig.fixupFirst

\* the call ran to its end
Completed(i) == i < Len(trace) \/ thrown = ""

\* C6: format runs the stages in the order replace product identifier, UID
\* fixup (pre), recurrence collapse, field rewrite, custom event injection,
\* UID fixup (post); a stage runs exactly when its sub-configuration is
\* present, and each stage starts from the document the one before it left
C6_PipelineOrder ==
    LET order == <<"replaceProdId", "fixupFirst", "collapseRecurrences",
                   "rewriteEventFields", "addAdditionalEvents", "fixupLast">>
        Pos(stage) == CHOOSE k \in 1..Len(order) : order[k] = stage
        ran == {trace[i].stage : i \in 1..Len(trace)}
    IN /\ \A i, j \in 1..Len(trace) : i < j => Pos(trace[i].stage) < Pos(trace[j].stage)
       /\ \A i \in 1..Len(trace) : ShouldRun(trace[i].stage, config)
       /\ (pc \in {"formatted", "returned", "responded"} /\ thrown = "") =>
             \A k \in 1..Len(order) : ShouldRun(order[k], config) => order[k] \in ran
       /\ \A i \in 1..Len(trace) :
             trace[i].before = IF i = 1 THEN source ELSE trace[i - 1].after
       /\ root = IF trace = <<>> THEN source ELSE trace[Len(trace)].after

\* all six stages ran, and the collapse and the rewrite each changed the
\* document they were given
C6_Witness ==
    /\ pc = "formatted"
    /\ Len(trace) = 6
    /\ trace[3].before.vevents # trace[3].after.vevents
    /\ trace[4].before.vevents # trace[4].after.vevents
    /\ trace[5].before.vevents # trace[5].after.vevents

\* C7: of the two calls of fixupUids the one chosen by fixupFirst sets the
\* uid of every event of the document it is given, the other leaves the
\* document as it is, and no event has its uid derived twice in one format
C7_OneEffectiveFixup ==
    /\ \A i \in FixupCalls : ~Effective(i) => trace[i].after = trace[i].before
    /\ \A i \in FixupCalls : (Effective(i) /\ Completed(i)) =>
          /\ Len(trace[i].after.vevents) = Len(trace[i].before.vevents)
          /\ \A k \in 1..Len(trace[i].before.vevents) :
                /\ trace[i].after.vevents[k] =
                      [trace[i].before.vevents[k] EXCEPT
                          !.uid = NewUid(trace[i].before.vevents[k], config.uidFixupConfig)]
                /\ Cardinality({j \in 1..Len(derived) :
                                  derived[j] = trace[i].before.vevents[k].id}) = 1
    /\ \A j1, j2 \in 1..Len(derived) : derived[j1] = derived[j2] => j1 = j2
    /\ (pc = "formatted" /\ config.uidFixupConfig.present) =>
          /\ Cardinality(FixupCalls) = 2
          /\ Cardinality({i \in FixupCalls : Effective(i)}) = 1

\* the first call was the effective one and derived both events of the
\* source; the event injected after it kept its uid
C7_Witness ==
    /\ pc = "formatted"
    /\ config.uidFixupConfig.present
    /\ config.uidFixupConfig.fixupFirst
    /\ Len(derived) = 2
    /\ Len(root.vevents) = 3

\* the events of a document that the custom event stage made
Injected(doc) ==
    {k \in 1..Len(doc.vevents) :
        \E t \in 1..Len(config.extensionConfig.customEvents) :
            doc.vevents[k].id = CustomId(t)}

\* the uid begins with 'custom_'
HasCustomUid(vevent) ==
    /\ vevent.uid.t = "text"
    /\ Len(vevent.uid.s) >= 7
    /\ SubSeq(vevent.uid.s, 1, 7) = <<"c", "u", "s", "t", "o", "m", "_">>

\* the uid is a prefix followed by the md5 of a start
HasDerivedUid(vevent) ==
    /\ vevent.uid.t = "text"
    /\ \E p \in 1..Len(vevent.uid.s) : vevent.uid.s[p] = "md5("
    /\ \/ SubSeq(vevent.uid.s, 1, 2) = <<"p_", "md5(">>
       \/ vevent.uid.s[2] = "_" /\ vevent.uid.s[3] = "md5("

\* C24: when format has returned with a uid fixup configured: with
\* fixupFirst the events given a new uid are exactly the events of the
\* source, and the events injected by the custom event stage still have
\* their 'custom_' uid; without fixupFirst the events given a new uid are
\* all the events of the final document, and each of them, injected events
\* and anchors of series included, has a derived uid and not the one it
\* had before the last stage
C24_FixupScope ==
    (pc = "formatted" /\ config.uidFixupConfig.present) =>
        IF config.uidFixupConfig.fixupFirst
        THEN /\ {derived[j] : j \in 1..Len(derived)}
                   = {source.vevents[k].id : k \in 1..Len(source.vevents)}
             /\ \A k \in Injected(root) : HasCustomUid(root.vevents[k])
             /\ \A k \in (1..Len(root.vevents)) \ Injected(root) :
                   /\ HasDerivedUid(root.vevents[k])
                   /\ ~HasCustomUid(root.vevents[k])
        ELSE /\ {derived[j] : j \in 1..Len(derived)}
                   = {root.vevents[k].id : k \in 1..Len(root.vevents)}
             /\ \A k \in 1..Len(root.vevents) :
                   /\ HasDerivedUid(root.vevents[k])
                   /\ ~HasCustomUid(root.vevents[k])
             /\ \A i \in FixupCalls :
                   trace[i].stage = "fixupLast" =>
                       \A k \in 1..Len(trace[i].before.vevents) :
                           /\ trace[i].after.vevents[k].id = trace[i].before.vevents[k].id
                           /\ trace[i].after.vevents[k].uid # trace[i].before.vevents[k].uid
                           /\ k \in Injected(trace[i].before) =>
                                 HasCustomUid(trace[i].before.vevents[k])

\* format has returned without fixupFirst, after collapsing and injecting:
\* the injected event and the two anchors all have derived uids
C24_Witness ==
    /\ pc = "formatted"
    /\ config.uidFixupConfig.present
    /\ ~config.uidFixupConfig.fixupFirst
    /\ config.recurrenceCollapseConfig.present
    /\ Len(root.vevents) = 3
    /\ Injected(root) = {3}
    /\ HasDerivedUid(root.vevents[3])

\* C8: when the effective call of fixupUids meets an event without a uid
\* (absent or empty) or without a dtstart, format throws; reloadCalendar
\* then returns an error, the cache keeps what it held, and the response
\* carries no calendar
C8_FatalErrorsAbort ==
    /\ \A i \in FixupCalls :
          (Effective(i) /\ \E k \in 1..Len(trace[i].before.vevents) :
                              \/ ~Truthy(trace[i].before.vevents[k].uid)
                              \/ ~Truthy(trace[i].before.vevents[k].dtstart))
          => (thrown # "" /\ i = Len(trace))
    /\ thrown # "" =>
          /\ pc \in {"thrown", "returned", "responded"}
          /\ calendarCache = lastEntry
          /\ pc \in {"returned", "responded"} =>
                (result.kind = "error" /\ result.entry = NoEntry)
          /\ pc = "responded" => (response.status = 500 /\ response.sent = NoEntry)

\* the second event had no uid: the first event's uid was already rewritten
\* when format threw, and the request was answered
C8_Witness ==
    /\ pc = "responded"
    /\ thrown = "UID is required"
    /\ Len(derived) = 1
    /\ root # source
    /\ lastEntry = OldEntry

\* C9: two events that enter the effective call of fixupUids with the same
\* uid and the same dtstart leave it with the same uid, whatever their
\* position and their other properties
C9_DerivationDeterministic ==
    \A i \in FixupCalls : (Effective(i) /\ Completed(i)) =>
        \A k1, k2 \in 1..Len(trace[i].before.vevents) :
            (/\ trace[i].before.vevents[k1].uid = trace[i].before.vevents[k2].uid
             /\ trace[i].before.vevents[k1].dtstart = trace[i].before.vevents[k2].dtstart)
            => trace[i].after.vevents[k1].uid = trace[i].after.vevents[k2].uid

\* two events with the same uid and dtstart and different locations went
\* through the effective call with a regex prefix
C9_Witness ==
    \E i \in FixupCalls :
        /\ Effective(i) /\ Completed(i)
        /\ config.uidFixupConfig.prefix.kind = "regex"
        /\ Len(trace[i].before.vevents) = 2
        /\ trace[i].before.vevents[1].uid = trace[i].before.vevents[2].uid
        /\ trace[i].before.vevents[1].dtstart = trace[i].before.vevents[2].dtstart
        /\ trace[i].before.vevents[1].location # trace[i].before.vevents[2].location
        /\ trace[i].after.vevents[1].uid # trace[i].before.vevents[1].uid

----------------------------------------------------------------------------
(* Properties of addAdditionalEvents *)

\* the entries of trace made by addAdditionalEvents
InjectCalls == {i \in 1..Len(trace) : trace[i].stage = "addAdditionalEvents"}

\* the event made for template k is among the events
InjectedInto(vs, k) == \E j \in 1..Len(vs) : vs[j].id = CustomId(k)

\* C12: a template whose only guard is 'all' events have STATUS equal to
\* 'confirmed' is injected exactly when every event of the document has a
\* status property equal to 'confirmed'
C12_AllGuardInjection ==
    \A i \in InjectCalls :
        LET customEvents == config.extensionConfig.customEvents
            before == trace[i].before.vevents
        IN (customEvents # <<>> /\ customEvents[1].conditions = <<AllConfirmed>>) =>
              (InjectedInto(trace[i].after.vevents, 1) <=>
                  \A k \in 1..Len(before) : before[k].status = TextVal(<<"confirmed">>))

\* two events, both confirmed, and the template was injected
C12_Witness ==
    \E i \in InjectCalls :
        /\ config.extensionConfig.customEvents # <<>>
        /\ config.extensionConfig.customEvents[1].conditions = <<AllConfirmed>>
        /\ Len(trace[i].before.vevents) = 2
        /\ InjectedInto(trace[i].after.vevents, 1)

\* C13: on a document without events a guard with match 'all' has the
\* threshold 0 and holds, and the stage injects no event for a template
\* that has only this guard
C13_EmptyDocumentInjectsNothing ==
    \A i \in InjectCalls :
        LET customEvents == config.extensionConfig.customEvents
        IN (/\ trace[i].before.vevents = <<>>
            /\ Len(customEvents) = 1
            /\ customEvents[1].conditions = <<AllConfirmed>>) =>
              /\ Threshold(AllConfirmed.match, 0) = 0
              /\ checkCondition(trace[i].before.vevents, AllConfirmed)
              /\ trace[i].after.vevents = <<>>

\* the templates of the list whose event is among the events
InjectedTemplates(vs, customEvents) ==
    {k \in 1..Len(customEvents) : InjectedInto(vs, k)}

\* the events the guards of template k are checked over: the events the
\* stage was given and the events injected for the templates before k
CollectionAt(before, after, k) ==
    SubSeq(after, 1,
           Len(before) + Cardinality({j \in 1..(k - 1) : InjectedInto(after, j)}))

\* a property of the template as the injected event carries it: as it is,
\* or with its line breaks escaped when the extension asks for that
Carried(value, useEscapeRules) ==
    IF value = Null THEN Null
    ELSE IF useEscapeRules THEN TextVal(applyEscapeRules(value.s)) ELSE value

\* the event e is what the template makes
MadeFrom(e, template, useEscapeRules) ==
    /\ e.dtstamp = TextVal(template.dtstamp)
    /\ e.dtstart = TimeVal(ParseDay(template.dtstart))
    /\ e.dtend = TimeVal(ParseDay(template.dtend))
    /\ IF template.tzid # Null /\ template.tzid.s # <<>>
       THEN e.dtstartTzid = template.tzid /\ e.dtendTzid = template.tzid
       ELSE e.dtstartTzid = Null /\ e.dtendTzid = Null
    /\ e.summary = Carried(template.properties.summary, useEscapeRules)
    /\ e.status = Carried(template.properties.status, useEscapeRules)
    /\ e.uid = TextVal(<<"c", "u", "s", "t", "o", "m", "_", "md5(">> \o template.dtstamp
                         \o template.properties.summary.s \o <<")">>)
    /\ e.uid # template.properties.uid
    /\ e.rrule = Null /\ e.location = Null /\ e.description = Null /\ e.priority = Null

\* C19: the stage appends one event for each template whose guards all
\* hold over the events present when the template is reached, and none
\* for a template with a failing guard; the event has the template's
\* dtstamp, dtstart and dtend, its tzid on both dtstart and dtend when it
\* has one, its properties except 'uid', and the uid 'custom_' followed by
\* the md5 of dtstamp and summary; the events the stage was given stay as
\* they were
C19_CustomEventSynthesis ==
    \A i \in InjectCalls :
        LET customEvents == config.extensionConfig.customEvents
            useEscapeRules == config.extensionConfig.escapeSpecialCharacters
            before == trace[i].before.vevents
            after == trace[i].after.vevents
        IN /\ Len(after) = Len(before) + Cardinality(InjectedTemplates(after, customEvents))
           /\ SubSeq(after, 1, Len(before)) = before
           /\ \A k \in 1..Len(customEvents) :
                 /\ InjectedInto(after, k) <=>
                       \A c \in 1..Len(customEvents[k].conditions) :
                           checkCondition(CollectionAt(before, after, k),
                                          customEvents[k].conditions[c])
                 /\ \A m, n \in 1..Len(after) :
                       (after[m].id = CustomId(k) /\ after[n].id = CustomId(k)) =>
                           /\ m = n
                           /\ m > Len(before)
                           /\ MadeFrom(after[m], customEvents[k], useEscapeRules)

\* the stage was given one tentative event; the first template, which has
\* a tzid and the guard 'any tentative', was injected with the tzid on its
\* dtend, and the second, whose guard 'all confirmed' fails, was not
C19_Witness ==
    \E i \in InjectCalls :
        LET customEvents == config.extensionConfig.customEvents
            before == trace[i].before.vevents
            after == trace[i].after.vevents
        IN /\ Len(before) = 1
           /\ Len(customEvents) = 2
           /\ customEvents[1].conditions = <<AnyTentative>>
           /\ customEvents[1].tzid = TextVal(<<"tz">>)
           /\ customEvents[2].conditions = <<AllConfirmed>>
           /\ InjectedInto(after, 1)
           /\ ~InjectedInto(after, 2)
           /\ after[2].dtendTzid = TextVal(<<"tz">>)

\* the position in the events of the event made for template k, 0 if none
PositionOf(vs, k) ==
    IF InjectedInto(vs, k) THEN CHOOSE p \in 1..Len(vs) : vs[p].id = CustomId(k) ELSE 0

\* the events that precede the place of template k: those given and those
\* made for earlier templates
SeenBy(vs, customEvents, k) ==
    SelectSeq(vs, LAMBDA e : \A t \in k..Len(customEvents) : e.id # CustomId(t))

\* every guard of the list holds over the events
GuardsHold(vs, conditions) ==
    \A c \in 1..Len(conditions) : checkCondition(vs, conditions[c])

\* C25: the events of the templates come in the order of the templates,
\* and a template is injected exactly when its guards hold over the events
\* given to the stage together with the events already injected for earlier
\* templates; so after an unguarded template with STATUS tentative a
\* template guarded by 'all confirmed' is not injected, and one guarded by
\* 'any tentative' is
C25_GuardsSeeEarlierInjections ==
    \A i \in InjectCalls :
        LET customEvents == config.extensionConfig.customEvents
            before == trace[i].before.vevents
            after == trace[i].after.vevents
        IN /\ \A j, k \in 1..Len(customEvents) :
                 (j < k /\ InjectedInto(after, j) /\ InjectedInto(after, k)) =>
                     PositionOf(after, j) < PositionOf(after, k)
           /\ \A k \in 1..Len(customEvents) :
                 InjectedInto(after, k) <=>
                     GuardsHold(SeenBy(after, customEvents, k), customEvents[k].conditions)
           /\ (/\ Len(customEvents) = 2
               /\ before # <<>>
               /\ customEvents[1].conditions = <<>>
               /\ customEvents[1].properties.status = TextVal(<<"tentative">>)) =>
                 /\ customEvents[2].conditions = <<AllConfirmed>> => ~InjectedInto(after, 2)
                 /\ customEvents[2].conditions = <<AnyTentative>> => InjectedInto(after, 2)

\* all events given are confirmed; the first template, unguarded and
\* tentative, was injected, and the second, guarded by 'all confirmed', was
\* not, though its guard holds over the events given
C25_Witness ==
    \E i \in InjectCalls :
        LET customEvents == config.extensionConfig.customEvents
            before == trace[i].before.vevents
            after == trace[i].after.vevents
        IN /\ Len(before) = 2
           /\ Len(customEvents) = 2
           /\ customEvents[1].conditions = <<>>
           /\ customEvents[1].properties.status = TextVal(<<"tentative">>)
           /\ customEvents[2].conditions = <<AllConfirmed>>
           /\ checkCondition(before, AllConfirmed)
           /\ InjectedInto(after, 1)
           /\ ~InjectedInto(after, 2)

\* the stage actions and the operator format agree
FormatAgrees ==
    pc \in {"formatted", "thrown"} =>
        format(source, config) = [doc |-> root, error |-> thrown]

----------------------------------------------------------------------------
(* Properties of the collapser's walk *)

\* the open series agrees with the event on every required-match key and
\* expects the event's start next
SeriesFits(recurrence, vevent) ==
    /\ \A k \in RequiredKeys : recurrence.matchRequirements[k] = toStringOrNull(vevent[k])
    /\ recurrence.nextTime = vevent.dtstart

\* the walk takes a singleton: it extends the first open series that fits,
\* or opens a new series; the output is left alone
WalkTakesSingleton ==
    LET vevent == Head(sorted)
    IN /\ output' = output
       /\ \/ /\ Len(inProgress') = Len(inProgress)
             /\ \E k \in 1..Len(inProgress) :
                   /\ SeriesFits(inProgress[k], vevent)
                   /\ \A j \in 1..(k - 1) : ~SeriesFits(inProgress[j], vevent)
                   /\ inProgress'[k].count = inProgress[k].count + 1
                   /\ inProgress'[k].nextTime.n =
                         inProgress[k].nextTime.n + Period(settings.frequency)
                   /\ inProgress'[k].baseEvent.id = inProgress[k].baseEvent.id
                   /\ inProgress'[k].baseEvent.id # vevent.id
                   /\ \A j \in 1..Len(inProgress) : j # k => inProgress'[j] = inProgress[j]
          \/ /\ Len(inProgress') = Len(inProgress) + 1
             /\ SubSeq(inProgress', 1, Len(inProgress)) = inProgress
             /\ inProgress'[Len(inProgress')].count = 1
             /\ inProgress'[Len(inProgress')].baseEvent.id = vevent.id
             /\ inProgress'[Len(inProgress')].nextTime.n =
                   vevent.dtstart.n + Period(settings.frequency)

\* two singletons that agree on the required-match keys and are not one
\* period apart both come out, without a rule
GapKeepsSeriesApart ==
    (/\ cpc = "done"
     /\ Len(vevents) = 2
     /\ Singletons = {1, 2}
     /\ \A k \in RequiredKeys : vevents[1][k] = vevents[2][k]
     /\ vevents[2].dtstart.n - vevents[1].dtstart.n # Period(settings.frequency)
     /\ vevents[1].dtstart.n - vevents[2].dtstart.n # Period(settings.frequency))
    => /\ Len(output) = 2
       /\ \A k \in 1..2 : output[k].rrule = Null
       /\ {output[1].id, output[2].id} = {1, 2}

\* C17: in the walk a singleton extends an open series only if the series
\* agrees with it on every required-match key and expects exactly its
\* start; it extends the first such series only, adding one to the count
\* and one period to the expected start, and is not kept itself; otherwise
\* it opens a series of count 1; two such events with a gap that is not one
\* period make two series
C17_SeriesMatching ==
    /\ [][(cpc = "walk" /\ sorted # <<>> /\ ~Truthy(Head(sorted).rrule))
            => WalkTakesSingleton]_vars
    /\ []GapKeepsSeriesApart

\* one series has taken a second event while another open series with
\* the same required-match values stayed at count 1
C17_Witness ==
    \E i, j \in 1..Len(inProgress) :
        /\ i # j
        /\ inProgress[i].matchRequirements = inProgress[j].matchRequirements
        /\ inProgress[i].count = 2
        /\ inProgress[j].count = 1

=============================================================================
